---------------------------- MODULE Spec2Model ----------------------------
(***************************************************************************)
(* A model of bppkg, the BetterPython package manager                      *)
(* (src/package-manager/bppkg.py): Security.sanitize_path, the dependency  *)
(* resolver and the install command.                                       *)
(*                                                                         *)
(* Strings whose characters the code inspects (paths, names, versions,     *)
(* version specs) are sequences of one-character strings, so that          *)
(* splitting, prefix tests and parsing are computed as the code computes   *)
(* them.                                                                   *)
(***************************************************************************)
EXTENDS Naturals, Integers, Sequences, FiniteSets, TLC

(***************************************************************************)
(* Strings                                                                 *)
(***************************************************************************)
\* s[n+1..] of a string, as Python's s[n:]
Drop(s, n) == SubSeq(s, n + 1, Len(s))

\* str.startswith
StartsWith(s, p) == Len(s) >= Len(p) /\ SubSeq(s, 1, Len(p)) = p

\* c in s, for a one-character c
HasChar(s, c) == \E i \in 1..Len(s) : s[i] = c

\* sub in s, for a substring sub
HasSub(s, sub) == \E i \in 0..Len(s) : StartsWith(Drop(s, i), sub)

\* the position of the first c in s, or 0
RECURSIVE IndexOf(_, _, _)
IndexOf(s, c, i) ==
    IF i > Len(s) THEN 0
    ELSE IF s[i] = c THEN i
    ELSE IndexOf(s, c, i + 1)

\* str.split(c): the pieces between the occurrences of c (at least one piece)
RECURSIVE Split(_, _)
Split(s, c) ==
    LET k == IndexOf(s, c, 1) IN
    IF k = 0 THEN << s >>
    ELSE << SubSeq(s, 1, k - 1) >> \o Split(Drop(s, k), c)

\* c.join(parts)
RECURSIVE Join(_, _)
Join(parts, c) ==
    IF parts = << >> THEN << >>
    ELSE IF Len(parts) = 1 THEN parts[1]
    ELSE parts[1] \o << c >> \o Join(Tail(parts), c)

Front(s) == SubSeq(s, 1, Len(s) - 1)

(***************************************************************************)
(* Paths (pathlib.PurePosixPath and Path.resolve, as sanitize_path uses    *)
(* them).  A parsed path is [abs, parts]; a canonical path is the sequence *)
(* of its components from the root.                                        *)
(***************************************************************************)
DotDot == << ".", "." >>
Dot == << "." >>

\* Path(s): the components between the slashes; empty ones and "." are dropped
PathParse(s) ==
    [ abs   |-> s # << >> /\ s[1] = "/",
      parts |-> SelectSeq(Split(s, "/"), LAMBDA c : c # << >> /\ c # Dot) ]

\* os.path.realpath: walk the components from cur; ".." drops the last
\* component of the canonical path so far (the root is its own parent), a
\* component that is a symbolic link is replaced by the link's target.  fuel
\* is the recursion's measure: the drawn link tables hold no link to a link,
\* so each component of the path is replaced at most once.
RECURSIVE Realpath(_, _, _, _)
Realpath(cur, rest, lnk, fuel) ==
    IF rest = << >> THEN cur
    ELSE LET c  == Head(rest)
             t  == Tail(rest)
             np == Append(cur, c)
         IN  IF c = DotDot
             THEN Realpath(IF cur = << >> THEN << >> ELSE Front(cur), t, lnk, fuel)
             ELSE IF np \in DOMAIN lnk /\ fuel > 0
             THEN LET to == PathParse(lnk[np]) IN
                  Realpath(IF to.abs THEN << >> ELSE cur, to.parts \o t, lnk, fuel - 1)
             ELSE Realpath(np, t, lnk, fuel)

\* Path.resolve() of an absolute path
Resolve(parts, lnk) == Realpath(<< >>, parts, lnk, Len(parts))

\* base / target: an absolute target replaces base
PathJoin(baseParts, targetStr) ==
    LET t == PathParse(targetStr) IN
    IF t.abs THEN t.parts ELSE baseParts \o t.parts

\* a plausible slip: the containment test on the path strings (str.startswith)
RelativeToByString(p, b) ==
    StartsWith(<< "/" >> \o Join(p, "/"), << "/" >> \o Join(b, "/"))

\* PurePath.relative_to succeeds: b's components are a prefix of p's
RelativeTo(p, b) == Len(p) >= Len(b) /\ SubSeq(p, 1, Len(b)) = b

\* Security.sanitize_path(base, target)
SanitizePath(baseStr, targetStr, lnk) ==
    LET b == Resolve(PathParse(baseStr).parts, lnk)
        t == Resolve(PathJoin(b, targetStr), lnk)
    IN  IF RelativeTo(t, b) THEN [ kind |-> "ok", path |-> t ]
        ELSE [ kind |-> "SecurityError", path |-> << >> ]

(***************************************************************************)
(* Versions and version specs (DependencyResolver)                         *)
(***************************************************************************)
Digits == { "0", "1", "2", "3", "4", "5", "6", "7", "8", "9" }

DigitVal(c) ==
    CASE c = "0" -> 0 [] c = "1" -> 1 [] c = "2" -> 2 [] c = "3" -> 3
      [] c = "4" -> 4 [] c = "5" -> 5 [] c = "6" -> 6 [] c = "7" -> 7
      [] c = "8" -> 8 [] OTHER -> 9

\* int(x) succeeds (x is a non-empty digit string; other spellings are not drawn)
IsInt(x) == x # << >> /\ \A i \in 1..Len(x) : x[i] \in Digits

\* int(x) of a digit string
RECURSIVE IntOf(_)
IntOf(x) == IF x = << >> THEN 0 ELSE IntOf(Front(x)) * 10 + DigitVal(x[Len(x)])

\* for a, b in zip(p1, p2): the first unequal pair decides
RECURSIVE ZipCompare(_, _, _)
ZipCompare(p1, p2, i) ==
    IF i > Len(p1) \/ i > Len(p2) THEN 0
    ELSE IF IntOf(p1[i]) > IntOf(p2[i]) THEN 1
    ELSE IF IntOf(p1[i]) < IntOf(p2[i]) THEN -1
    ELSE ZipCompare(p1, p2, i + 1)

\* DependencyResolver._compare_versions: [err, val]; int() of a field that is
\* no number raises ValueError
CompareVersions(v1, v2) ==
    LET p1 == Split(v1, ".")
        p2 == Split(v2, ".")
    IN  IF \A i \in 1..Len(p1) : IsInt(p1[i])
        THEN IF \A i \in 1..Len(p2) : IsInt(p2[i])
             THEN [ err |-> "none", val |-> ZipCompare(p1, p2, 1) ]
             ELSE [ err |-> "ValueError", val |-> 0 ]
        ELSE [ err |-> "ValueError", val |-> 0 ]

Latest == << "l", "a", "t", "e", "s", "t" >>
Star == << "*" >>

Truth(b) == [ err |-> "none", val |-> b ]

\* DependencyResolver._version_satisfies: [err, val], dispatching on the
\* spec's prefix in the code's order
VersionSatisfies(version, spec) ==
    IF spec = Latest \/ spec = Star THEN Truth(TRUE)
    ELSE IF StartsWith(spec, << ">", "=" >>)
    THEN LET c == CompareVersions(version, Drop(spec, 2)) IN
         IF c.err # "none" THEN [ err |-> c.err, val |-> FALSE ] ELSE Truth(c.val >= 0)
    ELSE IF StartsWith(spec, << "<", "=" >>)
    THEN LET c == CompareVersions(version, Drop(spec, 2)) IN
         IF c.err # "none" THEN [ err |-> c.err, val |-> FALSE ] ELSE Truth(c.val <= 0)
    ELSE IF StartsWith(spec, << ">" >>)
    THEN LET c == CompareVersions(version, Drop(spec, 1)) IN
         IF c.err # "none" THEN [ err |-> c.err, val |-> FALSE ] ELSE Truth(c.val > 0)
    ELSE IF StartsWith(spec, << "<" >>)
    THEN LET c == CompareVersions(version, Drop(spec, 1)) IN
         IF c.err # "none" THEN [ err |-> c.err, val |-> FALSE ] ELSE Truth(c.val < 0)
    ELSE IF StartsWith(spec, << "^" >>)
    THEN LET vp == Split(version, ".")
             sp == Split(Drop(spec, 1), ".")
         IN  Truth(vp[1] = sp[1])
    ELSE IF StartsWith(spec, << "~" >>)
    THEN LET vp == Split(version, ".")
             sp == Split(Drop(spec, 1), ".")
         IN  IF vp[1] # sp[1] THEN Truth(FALSE)
             ELSE IF Len(vp) < 2 \/ Len(sp) < 2
             THEN [ err |-> "IndexError", val |-> FALSE ]
             ELSE Truth(vp[2] = sp[2])
    ELSE Truth(version = spec)

(***************************************************************************)
(* Package names (Security.validate_package_name)                          *)
(***************************************************************************)
Letters ==
    { "a", "b", "c", "d", "e", "f", "g", "h", "i", "j", "k", "l", "m", "n", "o", "p",
      "q", "r", "s", "t", "u", "v", "w", "x", "y", "z",
      "A", "B", "C", "D", "E", "F", "G", "H", "I", "J", "K", "L", "M", "N", "O", "P",
      "Q", "R", "S", "T", "U", "V", "W", "X", "Y", "Z" }

NameChars == Letters \cup Digits \cup { "_", "-" }

MAX_NAME_LEN == 128

\* Security.validate_package_name: ^[a-zA-Z][a-zA-Z0-9_-]*$ (the $ also
\* matches before one trailing newline), no "..", "/" or "\", at most 128
\* characters
ValidatePackageName(name) ==
    /\ name # << >>
    /\ LET body == IF name[Len(name)] = "\n" THEN Front(name) ELSE name IN
       /\ body # << >>
       /\ body[1] \in Letters
       /\ \A i \in 2..Len(body) : body[i] \in NameChars
    /\ ~ HasSub(name, DotDot)
    /\ ~ HasChar(name, "/")
    /\ ~ HasChar(name, "\\")
    /\ Len(name) <= MAX_NAME_LEN

(***************************************************************************)
(* Versions as Security.validate_version accepts them (semver)             *)
(***************************************************************************)
\* 0|[1-9]\d*
NumericId(x) == IsInt(x) /\ (Len(x) = 1 \/ x[1] # "0")

\* [0-9a-zA-Z-]+
AlnumId(x) == x # << >> /\ \A i \in 1..Len(x) : x[i] \in Letters \cup Digits \cup { "-" }

\* 0|[1-9]\d*|\d*[a-zA-Z-][0-9a-zA-Z-]*
PrereleaseId(x) == NumericId(x) \/ (AlnumId(x) /\ \E i \in 1..Len(x) : x[i] \notin Digits)

\* Security.validate_version: major.minor.patch, then "-" and prerelease
\* identifiers, then "+" and build identifiers (the $ also matches before one
\* trailing newline)
ValidateVersion(version) ==
    LET body  == IF version # << >> /\ version[Len(version)] = "\n"
                 THEN Front(version) ELSE version
        plus  == Split(body, "+")
        main  == plus[1]
        dash  == IndexOf(main, "-", 1)
        core  == Split(IF dash = 0 THEN main ELSE SubSeq(main, 1, dash - 1), ".")
        pre   == Split(Drop(main, dash), ".")
        build == Split(plus[Len(plus)], ".")
    IN  /\ Len(core) = 3
        /\ \A i \in 1..3 : NumericId(core[i])
        /\ dash # 0 => \A i \in 1..Len(pre) : PrereleaseId(pre[i])
        /\ Len(plus) <= 2
        /\ Len(plus) = 2 => \A i \in 1..Len(build) : AlnumId(build[i])

(***************************************************************************)
(* Ordered mappings (Python dict): a sequence of [key, val] with distinct  *)
(* keys, in insertion order                                                *)
(***************************************************************************)
DictKeys(d) == { d[i].key : i \in 1..Len(d) }

DictHas(d, k) == \E i \in 1..Len(d) : d[i].key = k

DictGet(d, k) == d[CHOOSE i \in 1..Len(d) : d[i].key = k].val

\* d[k] = v: a key already there keeps its place
DictSet(d, k, v) ==
    IF DictHas(d, k)
    THEN [ i \in 1..Len(d) |-> IF d[i].key = k THEN [ key |-> k, val |-> v ] ELSE d[i] ]
    ELSE Append(d, [ key |-> k, val |-> v ])

\* del d[k]
DictDel(d, k) == SelectSeq(d, LAMBDA e : e.key # k)

\* list(d.values())
DictValues(d) == [ i \in 1..Len(d) |-> d[i].val ]

\* d.update(e)
RECURSIVE DictUpdate(_, _)
DictUpdate(d, e) ==
    IF e = << >> THEN d
    ELSE DictUpdate(DictSet(d, e[1].key, e[1].val), Tail(e))

Entry(k, v) == [ key |-> k, val |-> v ]

(***************************************************************************)
(* The values the model draws from                                         *)
(***************************************************************************)
NA == << "a" >>
NB == << "b" >>
NC == << "c" >>

V100 == << "1", ".", "0", ".", "0" >>
V200 == << "2", ".", "0", ".", "0" >>

Caret(v) == << "^" >> \o v

\* Security.compute_checksum of a supported algorithm: an ideal hash, one
\* digest per (algorithm, data)
Digest(data, algorithm) == << algorithm, data >>

\* the archive a package's publisher built, and what a tampering server sends
Archive(name, version) == << "archive", name, version >>
Tampered == << "tampered" >>

\* Security.sign_data: an ideal signature, naming the key and the signed data
Sign(data, keyId) == [ by |-> keyId, over |-> data ]

\* a PackageInfo as the registry's JSON gives it (description left out)
PackageInfo(name, version, dependencies, algorithm, signer, signedBy) ==
    [ name               |-> name,
      version            |-> version,
      checksum           |-> Digest(Archive(name, version), algorithm),
      checksum_algorithm |-> algorithm,
      signature          |-> Sign(Digest(Archive(name, version), algorithm), signedBy),
      signer_key_id      |-> signer,
      download_url       |-> << "https", "cdn", name, version >>,
      dependencies       |-> dependencies ]

\* a package published by the trusted signer k1 with a SHA-256 checksum
Published(name, version, dependencies) ==
    PackageInfo(name, version, dependencies, "sha256", "k1", "k1")

(***************************************************************************)
(* State                                                                   *)
(***************************************************************************)
VARIABLES
    \* sanitize_path, called on its own
    base,           \* the base directory (a path string)
    target,         \* the target (a path string)
    links,          \* the file system's symbolic links: canonical path -> target string
    sp_out,         \* what sanitize_path gave: [kind, path]; kind "none" before the call
    \* one run of DependencyResolver.resolve
    r_pc,           \* "idle", "running", "returned", "raised"
    resolved,       \* dict: requested name -> PackageInfo
    in_progress,    \* set of names
    stack,          \* the frames of _resolve_recursive: [deps, i]
    r_error,        \* the exception resolve raised: [kind, what, name]
    warnings,       \* names a "Could not fetch" warning was printed for
    requests,       \* the registry requests issued: [name, version]
    \* one invocation of PackageManager.install
    packages,       \* the requested list (strings "name" or "name@spec")
    dev,            \* the --dev flag
    pc,             \* where install is
    manifest_file,  \* bpkg.toml on disk: [state, doc]
    lockfile_file,  \* bpkg.lock on disk: [state, packages]
    disk0,          \* both files as they were before the command
    manifest,       \* the PackageManifest in memory
    deps,           \* the mapping handed to the resolver
    lockfile,       \* the Lockfile in memory: [loaded, packages]
    batch,          \* the list resolve returned
    idx,            \* the position of the install loop in batch
    pkg_state,      \* per position: Pending, Downloading, ChecksumVerified,
                    \* SignatureVerified, Installed, Failed
    pkg_result,     \* per position: how its try block ended
    data,           \* the bytes download_package holds
    installed,      \* the list of installed PackageInfo
    files,          \* files under the cache and the project's packages directory
    dirs,           \* directories under the project's packages directory
    writes,         \* every write of package bytes: [at, path, data]
    lock_saves,     \* the calls of Lockfile.save so far
    downloads,      \* the download URLs requested
    i_error,        \* the exception that ended install: [kind, what, name]
    \* one invocation of PackageManager.uninstall (with packages, pc, the
    \* manifest, dirs, idx and i_error above)
    validated,      \* the names that passed validate_package_name in this call
    removed,        \* the directories shutil.rmtree was called on, in order
    \* one call of Network.fetch or Network.fetch_package_info
    f_in,           \* the call: [op, url, max_size, name, version, response]
    f_out,          \* how it ended: [kind, what, requested, len]; kind "none" before,
                    \* "reading" in the read loop with len bytes in data
    \* one call of Security.validate_package_name
    n_in,           \* the name
    n_out,          \* what it returned: "True" or "False"; "none" before the call
    \* one call of a function that only computes: _version_satisfies,
    \* _compare_versions, verify_checksum
    call,           \* the call: [op, ...] with its arguments
    ret,            \* << >> before the call, then << [err, val] >>: what it gave
    \* one invocation of PackageManager.keygen or PackageManager.trust_key
    k_call,         \* the command: [op, key_id, umask, path]
    k_pc,           \* where the command is
    k_disk,         \* the key directory and the trusted-keys file on disk
    k_disk0,        \* the same as they were before the command
    k_mem,          \* PackageManager.trusted_keys: dict key id -> bytes
    k_error         \* the exception that ended the command: [kind, what, name]

pathVars == << base, target, links, sp_out >>
resolverVars == << r_pc, resolved, in_progress, stack, r_error, warnings, requests >>
diskVars == << manifest_file, lockfile_file, disk0 >>
loopVars == << batch, idx, pkg_state, pkg_result, data, installed, files, dirs,
               writes, downloads >>
installVars == << packages, dev, pc, diskVars, manifest, deps, lockfile, loopVars,
                  lock_saves, i_error >>
uninstallVars == << validated, removed >>
fetchVars == << f_in, f_out >>
nameVars == << n_in, n_out >>
callVars == << call, ret >>
keyVars == << k_call, k_pc, k_disk, k_disk0, k_mem, k_error >>
\* the variables of the calls the install command and the resolver do not touch
restVars == << uninstallVars, fetchVars, nameVars, callVars, keyVars >>
vars == << pathVars, resolverVars, installVars, restVars >>

NoError == [ kind |-> "none", what |-> "none", name |-> << >> ]

PathIdle ==
    /\ base = << >>
    /\ target = << >>
    /\ links = << >>
    /\ sp_out = [ kind |-> "none", path |-> << >> ]

ResolverIdle ==
    /\ r_pc = "idle"
    /\ resolved = << >>
    /\ in_progress = {}
    /\ stack = << >>
    /\ r_error = NoError
    /\ warnings = << >>
    /\ requests = << >>

UninstallIdle == validated = {} /\ removed = << >>

NotCalled == [ kind |-> "none", what |-> "none", requested |-> FALSE, len |-> 0 ]

FetchIdle == f_in = << >> /\ f_out = NotCalled

NameIdle == n_in = << >> /\ n_out = "none"

CallIdle == call = << >> /\ ret = << >>

KeyIdle ==
    /\ k_call = << >>
    /\ k_pc = "idle"
    /\ k_disk = << >>
    /\ k_disk0 = << >>
    /\ k_mem = << >>
    /\ k_error = NoError

NoFile == [ state |-> "absent", doc |-> << >> ]
NoLock == [ state |-> "absent", packages |-> << >> ]
NoManifest == [ name |-> << >>, version |-> << >>, description |-> << >>,
                files |-> << >>, dependencies |-> << >>,
                dev_dependencies |-> << >>, scripts |-> << >>,
                min_bp_version |-> V100 ]

InstallIdle ==
    /\ packages = << >>
    /\ dev = FALSE
    /\ pc = "idle"
    /\ manifest_file = NoFile
    /\ lockfile_file = NoLock
    /\ disk0 = << NoFile, NoLock >>
    /\ manifest = NoManifest
    /\ deps = << >>
    /\ lockfile = [ loaded |-> FALSE, packages |-> << >> ]
    /\ batch = << >>
    /\ idx = 0
    /\ pkg_state = << >>
    /\ pkg_result = << >>
    /\ data = << >>
    /\ installed = << >>
    /\ files = << >>
    /\ dirs = {}
    /\ writes = << >>
    /\ lock_saves = 0
    /\ downloads = << >>
    /\ i_error = NoError

(***************************************************************************)
(* sanitize_path on its own                                                *)
(***************************************************************************)
\* the most components of a drawn target
MaxTargetParts == 3

PathComponents == { DotDot, Dot, << "e" >>, << "e", "e" >>, << "p" >>, << "l" >> }

RECURSIVE SeqsUpTo(_, _)
SeqsUpTo(S, n) ==
    IF n = 0 THEN { << >> }
    ELSE LET shorter == SeqsUpTo(S, n - 1) IN
         shorter \cup { Append(q, x) : q \in shorter, x \in S }

\* "../../etc/passwd"
EtcPasswd ==
    << ".", ".", "/", ".", ".", "/", "e", "t", "c", "/", "p", "a", "s", "s", "w", "d" >>

\* relative and absolute targets of up to MaxTargetParts components, and
\* "../../etc/passwd"
Targets ==
    LET rel == { Join(q, "/") : q \in SeqsUpTo(PathComponents, MaxTargetParts) } IN
    rel \cup { << "/" >> \o r : r \in rel } \cup { EtcPasswd }

\* "/", "/e", "/b", "/b/l", "/e/p", "/etc", "/b/e/p"
Bases ==
    { << "/" >>, << "/", "e" >>, << "/", "b" >>, << "/", "b", "/", "l" >>,
      << "/", "e", "/", "p" >>, << "/", "e", "t", "c" >>,
      << "/", "b", "/", "e", "/", "p" >> }

\* no link; /b/l -> /e; /e/l -> ../b; /b/l -> /e and /e/p -> /b
LinkTables ==
    { << >>,
      ( << << "b" >>, << "l" >> >> :> << "/", "e" >> ),
      ( << << "e" >>, << "l" >> >> :> << ".", ".", "/", "b" >> ),
      ( << << "b" >>, << "l" >> >> :> << "/", "e" >> ) @@
      ( << << "e" >>, << "p" >> >> :> << "/", "b" >> ) }

InitPath ==
    /\ UninstallIdle
    /\ FetchIdle
    /\ NameIdle
    /\ KeyIdle
    /\ CallIdle
    /\ base \in Bases
    /\ target \in Targets
    /\ links \in LinkTables
    /\ sp_out = [ kind |-> "none", path |-> << >> ]
    /\ ResolverIdle
    /\ InstallIdle

CallSanitizePath ==
    /\ sp_out.kind = "none"
    /\ base # << >>
    /\ sp_out' = SanitizePath(base, target, links)
    /\ UNCHANGED << base, target, links, resolverVars, installVars, restVars >>

NextPath == CallSanitizePath

SpecPath == InitPath /\ [][NextPath]_vars

(***************************************************************************)
(* DependencyResolver.resolve and _resolve_recursive.  The recursion is    *)
(* the stack of frames [deps, i]: frame k+1 walks the dependencies of the  *)
(* package that frame k is expanding, deps[i] of frame k.                  *)
(***************************************************************************)
Top == stack[Len(stack)]

\* the (name, version_spec) the innermost loop is at
CurName == Top.deps[Top.i].key
CurSpec == Top.deps[Top.i].val

AtEntry == r_pc = "running" /\ stack # << >> /\ Top.i <= Len(Top.deps)

\* continue: the innermost loop goes to its next entry
Advance(stk) == [ stk EXCEPT ![Len(stk)].i = @ + 1 ]

Raise(kind, what, name) ==
    /\ r_pc' = "raised"
    /\ r_error' = [ kind |-> kind, what |-> what, name |-> name ]

\* a plausible slip: resolved and in_progress live on the resolver and are
\* not made anew by resolve
StartResolveKeeping(dependencies) ==
    /\ r_pc' = "running"
    /\ resolved' = resolved
    /\ in_progress' = in_progress
    /\ stack' = << [ deps |-> dependencies, i |-> 1 ] >>
    /\ r_error' = NoError

\* lines 550-551, resolve(dependencies): fresh resolved and in_progress, one frame
StartResolve(dependencies) ==
    /\ r_pc' = "running"
    /\ resolved' = << >>
    /\ in_progress' = {}
    /\ stack' = << [ deps |-> dependencies, i |-> 1 ] >>
    /\ r_error' = NoError

\* a plausible slip: the conflict test is skipped for a name already resolved
ConflictIgnored(version, spec) == FALSE

\* lines 565-569: the resolved version conflicts with the spec met now
Conflict(version, spec) == ~ VersionSatisfies(version, spec).val

\* lines 562-570: the name is in resolved; a conflict raises, otherwise continue
RAlreadyResolved ==
    /\ AtEntry
    /\ DictHas(resolved, CurName)
    /\ LET existing == DictGet(resolved, CurName)
           sat      == VersionSatisfies(existing.version, CurSpec)
       IN  IF sat.err # "none"
           THEN /\ Raise(sat.err, "none", CurName)
                /\ UNCHANGED stack
           ELSE IF Conflict(existing.version, CurSpec)
           THEN /\ Raise("DependencyError", "version conflict", CurName)
                /\ UNCHANGED stack
           ELSE /\ stack' = Advance(stack)
                /\ UNCHANGED << r_pc, r_error >>
    /\ UNCHANGED << resolved, in_progress, warnings, requests,
                    pathVars, restVars, installVars >>

\* lines 572-573: the name is in in_progress
RCircular ==
    /\ AtEntry
    /\ ~ DictHas(resolved, CurName)
    /\ CurName \in in_progress
    /\ Raise("DependencyError", "circular dependency", CurName)
    /\ UNCHANGED << resolved, in_progress, stack, warnings, requests,
                    pathVars, restVars, installVars >>

\* what a request to the registry can end in besides a PackageInfo:
\* urllib's HTTPError or URLError (NetworkError), a body over the size limit
\* or an SSL error (SecurityError), a JSON body without a required field
FetchFailures == { "NetworkError", "SecurityError", "KeyError" }

\* a plausible slip: the answer is not kept in resolved
StoreNothing(d, name, info) == d

\* line 585: resolved[name] = info
Store(d, name, info) == DictSet(d, name, info)

\* lines 580-583: continue after a NetworkError; in_progress keeps the name
AfterSkip(names, name) == names

\* lines 575-591: in_progress.add(name); fetch_package_info(name, version_spec)
\* (which validates the name, then requests the URL); a NetworkError is a
\* warning and continue; a PackageInfo is stored and its dependencies, when it
\* has any, are walked in a new frame; with none, in_progress.remove(name).
\* answers: the PackageInfos the registry may give for this request
RFetch(answers) ==
    /\ AtEntry
    /\ ~ DictHas(resolved, CurName)
    /\ CurName \notin in_progress
    /\ IF ~ ValidatePackageName(CurName)
       THEN /\ Raise("ValidationError", "invalid package name", CurName)
            /\ in_progress' = in_progress \cup { CurName }
            /\ UNCHANGED << resolved, stack, warnings, requests >>
       ELSE /\ requests' = Append(requests, [ name |-> CurName, version |-> CurSpec ])
            /\ \E kind \in FetchFailures \cup { "ok" } :
                 IF kind = "NetworkError"
                 THEN /\ warnings' = Append(warnings, CurName)
                      /\ in_progress' = AfterSkip(in_progress \cup { CurName }, CurName)
                      /\ stack' = Advance(stack)
                      /\ UNCHANGED << r_pc, r_error, resolved >>
                 ELSE IF kind # "ok"
                 THEN /\ Raise(kind, "none", CurName)
                      /\ in_progress' = in_progress \cup { CurName }
                      /\ UNCHANGED << resolved, stack, warnings >>
                 ELSE \E info \in answers :
                      /\ resolved' = Store(resolved, CurName, info)
                      /\ IF info.dependencies # << >>
                         THEN /\ stack' = Append(stack, [ deps |-> info.dependencies, i |-> 1 ])
                              /\ in_progress' = in_progress \cup { CurName }
                         ELSE /\ stack' = Advance(stack)
                              /\ in_progress' = in_progress
                      /\ UNCHANGED << r_pc, r_error, warnings >>
    /\ UNCHANGED << pathVars, restVars, installVars >>

\* the innermost loop is over: _resolve_recursive returns; its caller removes
\* the name it was expanding from in_progress (line 591) and continues, and
\* resolve returns list(resolved.values()) when the outermost returns
RReturn ==
    /\ r_pc = "running"
    /\ stack # << >>
    /\ Top.i > Len(Top.deps)
    /\ IF Len(stack) = 1
       THEN /\ r_pc' = "returned"
            /\ stack' = << >>
            /\ UNCHANGED in_progress
       ELSE LET callers == Front(stack)
                expanded == callers[Len(callers)].deps[callers[Len(callers)].i].key
            IN  /\ in_progress' = in_progress \ { expanded }
                /\ stack' = Advance(callers)
                /\ UNCHANGED r_pc
    /\ UNCHANGED << resolved, r_error, warnings, requests,
                    pathVars, restVars, installVars >>

\* the packages resolve returns
Result == DictValues(resolved)

(***************************************************************************)
(* The resolver on its own, against a registry that may answer a request   *)
(* for a name with any version and any of a few dependency mappings        *)
(***************************************************************************)
\* the dependency mappings a registry answer may carry
RegistryDeps ==
    { << >>,
      << Entry(NA, V100) >>,
      << Entry(NB, Star) >>,
      << Entry(NB, << ">", "=" >> \o V200) >>,
      << Entry(NC, Caret(V100)) >>,
      << Entry(NC, Caret(V200)) >> }

\* the registry answers with the requested name
RegistryAnswers(name, spec) ==
    { Published(name, v, d) : v \in { V100, V200 }, d \in RegistryDeps }

\* the mappings resolve is called with
TopLevelDeps ==
    { << Entry(NA, Caret(V100)) >>,
      << Entry(NA, V100) >>,
      << Entry(NA, Caret(V100)), Entry(NB, V100) >>,
      << Entry(NC, Star), Entry(NA, Latest) >>,
      << Entry(NB, Star), Entry(<< ".", ".", "/", "x" >>, Star) >>,
      << Entry(NB, << ".", ".", "/", "x" >>) >> }

InitResolve ==
    /\ UninstallIdle
    /\ FetchIdle
    /\ NameIdle
    /\ KeyIdle
    /\ CallIdle
    /\ PathIdle
    /\ InstallIdle
    /\ r_pc = "running"
    /\ resolved = << >>
    /\ in_progress = {}
    /\ \E d \in TopLevelDeps : stack = << [ deps |-> d, i |-> 1 ] >>
    /\ r_error = NoError
    /\ warnings = << >>
    /\ requests = << >>

NextResolve ==
    \/ RAlreadyResolved
    \/ RCircular
    \/ RFetch(RegistryAnswers(CurName, CurSpec))
    \/ RReturn

SpecResolve == InitResolve /\ [][NextResolve]_vars

(***************************************************************************)
(* The manifest file.  Its text is kept as its sections in order, each     *)
(* with its key = "value" lines (the data the text carries).               *)
(***************************************************************************)
Section(name, lines) == [ section |-> name, lines |-> lines ]

\* PackageManifest.to_toml: [package] always, with min_bp_version when it is
\* not empty; the other sections when not empty.  A line of [package.files]
\* is a quoted file name and a comma: it has no key
ToToml(m) ==
    << Section("package",
               << Entry("name", m.name), Entry("version", m.version),
                  Entry("description", m.description) >>
               \o (IF m.min_bp_version # << >>
                   THEN << Entry("min_bp_version", m.min_bp_version) >> ELSE << >>)) >>
    \o (IF m.files # << >>
        THEN << Section("package.files",
                        [ i \in 1..Len(m.files) |-> Entry("", m.files[i]) ]) >>
        ELSE << >>)
    \o (IF m.dependencies # << >>
        THEN << Section("dependencies", m.dependencies) >> ELSE << >>)
    \o (IF m.dev_dependencies # << >>
        THEN << Section("dev-dependencies", m.dev_dependencies) >> ELSE << >>)
    \o (IF m.scripts # << >>
        THEN << Section("scripts", m.scripts) >> ELSE << >>)

\* lines 194-214: the key = value lines of a section, applied to the result
\* so far; the lines of any other section, [package.files] among them, are
\* passed over
RECURSIVE TomlLines(_, _, _)
TomlLines(result, section, lines) ==
    IF lines = << >> THEN result
    ELSE LET l == lines[1]
             next ==
               IF section = "package"
               THEN IF l.key = "name" THEN [ result EXCEPT !.name = l.val ]
                    ELSE IF l.key = "version" THEN [ result EXCEPT !.version = l.val ]
                    ELSE IF l.key = "description"
                    THEN [ result EXCEPT !.description = l.val ]
                    ELSE IF l.key = "files" THEN [ result EXCEPT !.files = l.val ]
                    ELSE IF l.key = "min_bp_version"
                    THEN [ result EXCEPT !.min_bp_version = l.val ]
                    ELSE result
               ELSE IF section = "dependencies"
               THEN [ result EXCEPT !.dependencies = DictSet(@, l.key, l.val) ]
               ELSE IF section = "dev-dependencies"
               THEN [ result EXCEPT !.dev_dependencies = DictSet(@, l.key, l.val) ]
               ELSE IF section = "scripts"
               THEN [ result EXCEPT !.scripts = DictSet(@, l.key, l.val) ]
               ELSE result
         IN  TomlLines(next, section, Tail(lines))

RECURSIVE TomlSections(_, _)
TomlSections(result, doc) ==
    IF doc = << >> THEN result
    ELSE TomlSections(TomlLines(result, doc[1].section, doc[1].lines), Tail(doc))

\* PackageManifest.from_toml
FromToml(doc) == TomlSections(NoManifest, doc)

(***************************************************************************)
(* Network.download_package's checks                                       *)
(***************************************************************************)
SUPPORTED_HASHES == { "sha256", "sha512", "blake2b" }

\* the public key of a key pair
PublicKey(keyId) == << "pub", keyId >>

\* PackageManager.trusted_keys, as loaded at startup: one trusted signer
TrustedKeys == << Entry("k1", PublicKey("k1")) >>

\* Security.verify_signature(data, signature, public_key)
VerifySignature(bytes, signature, publicKey) ==
    publicKey = PublicKey(signature.by) /\ signature.over = bytes

\* a plausible slip: the digest is not compared
ChecksumUnchecked(bytes, info) == TRUE

\* line 519: Security.verify_checksum(data, info.checksum, info.checksum_algorithm)
ChecksumMatches(bytes, info) == Digest(bytes, info.checksum_algorithm) = info.checksum

\* a plausible slip: a signer the key store does not hold is let through
SignerAlwaysTrusted(info, keys) == TRUE

\* line 523: info.signer_key_id in trusted_keys
SignerTrusted(info, keys) == DictHas(keys, info.signer_key_id)

\* lines 526-528: the signature over the checksum verifies under the signer's key
SignatureValid(info, keys) ==
    /\ DictHas(keys, info.signer_key_id)
    /\ VerifySignature(info.checksum, info.signature, DictGet(keys, info.signer_key_id))

(***************************************************************************)
(* PackageManager.install                                                  *)
(***************************************************************************)
\* Path.cwd() / "packages" and CACHE_DIR
PackagesDir == << "/", "p", "/", "p", "a", "c", "k", "a", "g", "e", "s" >>
CacheDir == << << "h" >>, << "c", "a", "c", "h", "e" >> >>

TarGz == << ".", "t", "a", "r", ".", "g", "z" >>

\* line 793: self.cache_dir / f"{info.name}-{info.version}.tar.gz"
CacheFile(info) == PathJoin(CacheDir, info.name \o << "-" >> \o info.version \o TarGz)

\* line 798: pkg_dir / f"{info.name}.tar.gz"
PackageFile(pkgDir, info) == PathJoin(pkgDir, info.name \o TarGz)

\* lines 734-737: name, version of a requested "name" or "name@spec"
Requested(pkg) ==
    LET k == IndexOf(pkg, "@", 1) IN
    IF k = 0 THEN [ name |-> pkg, version |-> Latest ]
    ELSE [ name |-> SubSeq(pkg, 1, k - 1), version |-> Drop(pkg, k) ]

\* a plausible slip: only the first requested name is validated
FirstInvalidHead(pkgs, i) ==
    IF pkgs # << >> /\ ~ ValidatePackageName(Requested(pkgs[1]).name) THEN 1 ELSE 0

\* lines 733-742: the first requested name that fails validation, or 0
RECURSIVE FirstInvalid(_, _)
FirstInvalid(pkgs, i) ==
    IF i > Len(pkgs) THEN 0
    ELSE IF ~ ValidatePackageName(Requested(pkgs[i]).name) THEN i
    ELSE FirstInvalid(pkgs, i + 1)

\* lines 732-742: deps[name] = version for each requested package
RECURSIVE RequestedDeps(_)
RequestedDeps(pkgs) ==
    IF pkgs = << >> THEN << >>
    ELSE LET r == Requested(pkgs[Len(pkgs)]) IN
         DictSet(RequestedDeps(Front(pkgs)), r.name, r.version)

\* lines 811-818
LockEntry(info) ==
    [ name               |-> info.name,
      version            |-> info.version,
      checksum           |-> info.checksum,
      checksum_algorithm |-> info.checksum_algorithm,
      source             |-> info.download_url,
      dependencies       |-> info.dependencies ]

\* lines 810-818: lockfile.packages[info.name] = LockEntry(...) for info in installed
RECURSIVE WithEntries(_, _)
WithEntries(pkgs, infos) ==
    IF infos = << >> THEN pkgs
    ELSE WithEntries(DictSet(pkgs, infos[1].name, LockEntry(infos[1])), Tail(infos))

\* a plausible slip: the entries are written into a fresh Lockfile
FreshLock(pkgs, infos) == WithEntries(<< >>, infos)

\* lines 807-818: the packages of the lockfile to save
MergedLock(pkgs, infos) == WithEntries(pkgs, infos)

Raised(kind, what, name) == [ kind |-> kind, what |-> what, name |-> name ]

Running ==
    pc \in { "NotStarted", "ManifestLoaded", "WritingManifest", "DumpingManifest",
             "DepsReady", "Resolving", "DependenciesResolved", "SavingLockfile",
             "LockfileUpdated" }

\* lines 722-728
ILoadManifest ==
    /\ pc = "NotStarted"
    /\ IF manifest_file.state = "absent"
       THEN /\ pc' = "Aborted"
            /\ i_error' = Raised("PackageError", "no manifest", << >>)
            /\ UNCHANGED manifest
       ELSE /\ pc' = "ManifestLoaded"
            /\ manifest' = FromToml(manifest_file.doc)
            /\ UNCHANGED i_error
    /\ UNCHANGED << packages, dev, diskVars, deps, lockfile, loopVars, lock_saves,
                    pathVars, restVars, resolverVars >>

\* lines 730-748: the requested names are validated in order, then merged
\* into the manifest in memory
IRequested ==
    /\ pc = "ManifestLoaded"
    /\ packages # << >>
    /\ LET bad == FirstInvalid(packages, 1) IN
       IF bad # 0
       THEN /\ pc' = "Aborted"
            /\ i_error' = Raised("ValidationError", "invalid package name",
                                 Requested(packages[bad]).name)
            /\ UNCHANGED << manifest, deps >>
       ELSE /\ pc' = "WritingManifest"
            /\ deps' = RequestedDeps(packages)
            /\ manifest' =
                 IF dev
                 THEN [ manifest EXCEPT
                          !.dev_dependencies = DictUpdate(@, RequestedDeps(packages)) ]
                 ELSE [ manifest EXCEPT
                          !.dependencies = DictUpdate(@, RequestedDeps(packages)) ]
            /\ UNCHANGED i_error
    /\ UNCHANGED << packages, dev, diskVars, lockfile, loopVars, lock_saves,
                    pathVars, restVars, resolverVars >>

\* line 750, manifest_path.write_text: the file is opened for writing, which
\* empties it
IOpenManifest ==
    /\ pc = "WritingManifest"
    /\ manifest_file' = [ state |-> "partial", doc |-> << >> ]
    /\ pc' = "DumpingManifest"
    /\ UNCHANGED << packages, dev, lockfile_file, disk0, manifest, deps, lockfile,
                    loopVars, lock_saves, i_error,
                    pathVars, restVars, resolverVars >>

\* line 750: the text is written and the file closed
IWriteManifest ==
    /\ pc = "DumpingManifest"
    /\ manifest_file' = [ state |-> "whole", doc |-> ToToml(manifest) ]
    /\ pc' = "DepsReady"
    /\ UNCHANGED << packages, dev, lockfile_file, disk0, manifest, deps, lockfile,
                    loopVars, lock_saves, i_error,
                    pathVars, restVars, resolverVars >>

\* a plausible slip: the dev dependencies are taken without --dev too
WithDevDependencies(m, d) == DictUpdate(m.dependencies, m.dev_dependencies)

\* lines 753-755: {**manifest.dependencies}, updated with the dev
\* dependencies under --dev
ManifestDeps(m, d) ==
    IF d THEN DictUpdate(m.dependencies, m.dev_dependencies) ELSE m.dependencies

\* lines 751-755: no requested list; the manifest's dependencies, with the
\* dev dependencies under --dev
IManifestDeps ==
    /\ pc = "ManifestLoaded"
    /\ packages = << >>
    /\ deps' = ManifestDeps(manifest, dev)
    /\ pc' = "DepsReady"
    /\ UNCHANGED << packages, dev, diskVars, manifest, lockfile, loopVars, lock_saves,
                    i_error, pathVars, restVars, resolverVars >>

\* lines 757-759: nothing to install
INoDeps ==
    /\ pc = "DepsReady"
    /\ deps = << >>
    /\ pc' = "Done"
    /\ UNCHANGED << packages, dev, diskVars, manifest, deps, lockfile, loopVars,
                    lock_saves, i_error, pathVars, restVars,
                    resolverVars >>

\* lines 763-771: the lockfile is loaded when there is one, and resolve is called
IStartResolve ==
    /\ pc = "DepsReady"
    /\ deps # << >>
    /\ lockfile_file.state # "partial"
    /\ lockfile' = IF lockfile_file.state = "absent"
                   THEN [ loaded |-> FALSE, packages |-> << >> ]
                   ELSE [ loaded |-> TRUE, packages |-> lockfile_file.packages ]
    /\ StartResolve(deps)
    /\ pc' = "Resolving"
    /\ UNCHANGED << packages, dev, diskVars, manifest, deps, loopVars, lock_saves,
                    i_error, pathVars, restVars, warnings, requests >>

\* lines 766-767, Lockfile.load: json.load of a file that holds no JSON text
\* raises json.JSONDecodeError, which leaves install
ILockfileUnreadable ==
    /\ pc = "DepsReady"
    /\ deps # << >>
    /\ lockfile_file.state = "partial"
    /\ pc' = "Aborted"
    /\ i_error' = Raised("JSONDecodeError", "bpkg.lock", << >>)
    /\ UNCHANGED << packages, dev, diskVars, manifest, deps, lockfile, loopVars,
                    lock_saves, pathVars, restVars, resolverVars >>

\* a plausible slip: every exception of resolve is caught
ResolveCaughtAny(kind) == TRUE

\* line 772: except NetworkError
ResolveCaught(kind) == kind = "NetworkError"

\* lines 770-783: resolve raised; a NetworkError is a warning and install
\* goes on with resolved = [], any other exception leaves install
IResolveRaised ==
    /\ pc = "Resolving"
    /\ r_pc = "raised"
    /\ IF ResolveCaught(r_error.kind)
       THEN /\ batch' = << >>
            /\ idx' = 1
            /\ pkg_state' = << >>
            /\ pkg_result' = << >>
            /\ dirs' = dirs \cup { PathParse(PackagesDir).parts }
            /\ pc' = "DependenciesResolved"
            /\ UNCHANGED << data, installed, files, writes, downloads, i_error >>
       ELSE /\ pc' = "Aborted"
            /\ i_error' = r_error
            /\ UNCHANGED loopVars
    /\ UNCHANGED << packages, dev, diskVars, manifest, deps, lockfile,
                    lock_saves, pathVars, restVars, resolverVars >>

\* lines 771-785: resolve returned; the project's packages directory is made
IResolved ==
    /\ pc = "Resolving"
    /\ r_pc = "returned"
    /\ batch' = Result
    /\ idx' = 1
    /\ pkg_state' = [ i \in 1..Len(Result) |-> "Pending" ]
    /\ pkg_result' = [ i \in 1..Len(Result) |-> [ kind |-> "none", what |-> "none" ] ]
    /\ dirs' = dirs \cup { PathParse(PackagesDir).parts }
    /\ pc' = "DependenciesResolved"
    /\ UNCHANGED << packages, dev, diskVars, manifest, deps, lockfile, data, installed,
                    files, writes, downloads, lock_saves, i_error,
                    pathVars, restVars,
                    resolverVars >>

\* the install loop is at a package of the batch
InLoop == pc = "DependenciesResolved" /\ idx <= Len(batch)

Info == batch[idx]

\* a plausible slip: the first failure ends the loop
StopAfterFailure(i) == Len(batch) + 1

\* lines 803-804: the failure is printed and the loop goes on
AfterFailure(i) == i + 1

\* except (SecurityError, NetworkError): the package at idx is Failed
Failed(kind, what) ==
    /\ pkg_state' = [ pkg_state EXCEPT ![idx] = "Failed" ]
    /\ pkg_result' = [ pkg_result EXCEPT ![idx] = [ kind |-> kind, what |-> what ] ]
    /\ idx' = AfterFailure(idx)
    /\ data' = << >>

\* lines 789-790: the package directory, sanitized under packages/, is made
IBegin ==
    /\ InLoop
    /\ pkg_state[idx] = "Pending"
    /\ LET sp == SanitizePath(PackagesDir, Info.name, << >>) IN
       IF sp.kind # "ok"
       THEN /\ Failed("SecurityError", "path traversal")
            /\ UNCHANGED dirs
       ELSE /\ dirs' = dirs \cup { sp.path }
            /\ pkg_state' = [ pkg_state EXCEPT ![idx] = "Downloading" ]
            /\ UNCHANGED << pkg_result, idx, data >>
    /\ UNCHANGED << packages, dev, pc, diskVars, manifest, deps, lockfile, batch,
                    installed, files, writes, downloads, lock_saves, i_error,
                    pathVars, restVars, resolverVars >>

\* what fetch(info.download_url) can end in: the published archive, other
\* bytes, a NetworkError, a SecurityError (size limit, SSL)
DownloadOutcomes(info) ==
    { [ kind |-> "ok", bytes |-> Archive(info.name, info.version) ],
      [ kind |-> "ok", bytes |-> Tampered ],
      [ kind |-> "NetworkError", bytes |-> << >> ],
      [ kind |-> "SecurityError", bytes |-> << >> ] }

\* lines 516-520: the archive is fetched and its checksum verified;
\* compute_checksum raises ValidationError for an algorithm it does not
\* support, which the loop does not catch
IDownload ==
    /\ InLoop
    /\ pkg_state[idx] = "Downloading"
    /\ downloads' = Append(downloads, Info.download_url)
    /\ \E got \in DownloadOutcomes(Info) :
         IF got.kind # "ok"
         THEN /\ Failed(got.kind, "fetch")
              /\ UNCHANGED << pc, i_error >>
         ELSE IF Info.checksum_algorithm \notin SUPPORTED_HASHES
         THEN /\ pc' = "Aborted"
              /\ i_error' = Raised("ValidationError", "unsupported hash", Info.name)
              /\ pkg_result' = [ pkg_result EXCEPT
                                   ![idx] = [ kind |-> "ValidationError",
                                              what |-> "unsupported hash" ] ]
              /\ UNCHANGED << pkg_state, idx, data >>
         ELSE IF ~ ChecksumMatches(got.bytes, Info)
         THEN /\ Failed("SecurityError", "checksum mismatch")
              /\ UNCHANGED << pc, i_error >>
         ELSE /\ pkg_state' = [ pkg_state EXCEPT ![idx] = "ChecksumVerified" ]
              /\ data' = got.bytes
              /\ UNCHANGED << pkg_result, idx, pc, i_error >>
    /\ UNCHANGED << packages, dev, diskVars, manifest, deps, lockfile, batch,
                    installed, files, dirs, writes, lock_saves,
                    pathVars, restVars,
                    resolverVars >>

\* lines 522-529: the signer must be a trusted key and the signature over the
\* checksum must verify under it
IVerifySignature ==
    /\ InLoop
    /\ pkg_state[idx] = "ChecksumVerified"
    /\ IF ~ SignerTrusted(Info, TrustedKeys)
       THEN Failed("SecurityError", "untrusted key")
       ELSE IF ~ SignatureValid(Info, TrustedKeys)
       THEN Failed("SecurityError", "invalid signature")
       ELSE /\ pkg_state' = [ pkg_state EXCEPT ![idx] = "SignatureVerified" ]
            /\ UNCHANGED << pkg_result, idx, data >>
    /\ UNCHANGED << packages, dev, pc, diskVars, manifest, deps, lockfile, batch,
                    installed, files, dirs, writes, downloads, lock_saves, i_error,
                    pathVars, restVars, resolverVars >>

\* lines 531-533 and 798-801: the bytes are written to the cache file, the
\* cache file is copied into the package directory, the package is installed
IPlace ==
    /\ InLoop
    /\ pkg_state[idx] = "SignatureVerified"
    /\ LET cache == CacheFile(Info)
           copy  == PackageFile(SanitizePath(PackagesDir, Info.name, << >>).path, Info)
       IN  /\ files' = DictSet(DictSet(files, cache, data), copy, data)
           /\ writes' = writes \o << [ at |-> idx, path |-> cache, data |-> data ],
                                     [ at |-> idx, path |-> copy, data |-> data ] >>
    /\ installed' = Append(installed, Info)
    /\ pkg_state' = [ pkg_state EXCEPT ![idx] = "Installed" ]
    /\ pkg_result' = [ pkg_result EXCEPT ![idx] = [ kind |-> "ok", what |-> "none" ] ]
    /\ idx' = idx + 1
    /\ data' = << >>
    /\ UNCHANGED << packages, dev, pc, diskVars, manifest, deps, lockfile, batch,
                    dirs, downloads, lock_saves, i_error,
                    pathVars, restVars, resolverVars >>

\* a plausible slip: the lockfile is saved inside the loop
LoopDoneEarly == idx > 1

\* line 806: the for loop over the batch has ended
LoopDone == idx > Len(batch)

\* lines 807-819, Lockfile.save: the entries of the installed packages are
\* put into the lockfile in memory, and the file is opened for writing, which
\* empties it
ISaveLockfile ==
    /\ pc = "DependenciesResolved"
    /\ LoopDone
    /\ installed # << >>
    /\ lockfile' = [ loaded |-> TRUE,
                     packages |-> MergedLock(lockfile.packages, installed) ]
    /\ lockfile_file' = [ state |-> "partial", packages |-> << >> ]
    /\ lock_saves' = lock_saves + 1
    /\ pc' = "SavingLockfile"
    /\ UNCHANGED << packages, dev, manifest_file, disk0, manifest, deps, loopVars,
                    i_error, pathVars, restVars, resolverVars >>

\* lines 244-245: json.dump has written the lockfile and the file is closed
IDumpLockfile ==
    /\ pc = "SavingLockfile"
    /\ lockfile_file' = [ state |-> "whole", packages |-> lockfile.packages ]
    /\ pc' = "LockfileUpdated"
    /\ UNCHANGED << packages, dev, manifest_file, disk0, manifest, deps, lockfile,
                    loopVars, lock_saves, i_error,
                    pathVars, restVars, resolverVars >>

\* line 807: nothing was installed, no lockfile is written
INothingInstalled ==
    /\ pc = "DependenciesResolved"
    /\ LoopDone
    /\ installed = << >>
    /\ pc' = "Done"
    /\ UNCHANGED << packages, dev, diskVars, manifest, deps, lockfile, loopVars,
                    lock_saves, i_error, pathVars, restVars,
                    resolverVars >>

\* lines 820-822: the tally is printed and install returns
IFinish ==
    /\ pc = "LockfileUpdated"
    /\ pc' = "Done"
    /\ UNCHANGED << packages, dev, diskVars, manifest, deps, lockfile, loopVars,
                    lock_saves, i_error, pathVars, restVars,
                    resolverVars >>

\* main, lines 1125-1127: KeyboardInterrupt, raised between any two steps;
\* the error records where install was
IInterrupt ==
    /\ Running
    /\ pc' = "Interrupted"
    /\ i_error' = Raised("KeyboardInterrupt", pc, << >>)
    /\ UNCHANGED << packages, dev, diskVars, manifest, deps, lockfile, loopVars,
                    lock_saves, pathVars, restVars, resolverVars >>

(***************************************************************************)
(* The install command, from a project directory, against a registry       *)
(***************************************************************************)
\* (checksum_algorithm, signer_key_id, the key that signed): k1 is trusted,
\* k2 is a signer the key store does not hold, k0 is a forger
SecurityProfiles ==
    { << "sha256", "k1", "k1" >>, << "sha256", "k1", "k0" >>,
      << "sha256", "k2", "k2" >>, << "sha256", "k2", "k0" >>,
      << "md5", "k1", "k1" >>, << "md5", "k2", "k2" >> }

\* what the registry may answer a request with: the requested package under
\* each security profile, a second version of it, one with a dependency, one
\* that depends on another version of itself, the PackageInfo of another
\* package, one whose name is a path ("../e"), one
\* whose version is a path ("/../../x")
InstallAnswers(name, spec) ==
    { PackageInfo(name, V100, << >>, p[1], p[2], p[3]) : p \in SecurityProfiles }
    \cup { Published(name, V200, << >>),
           Published(name, V100, << Entry(NB, Star) >>),
           Published(name, V100, << Entry(name, Caret(V200)) >>),
           Published(IF name = NA THEN NB ELSE NA, V100, << >>),
           Published(<< ".", ".", "/", "e" >>, V100, << >>),
           Published(name, << "/", ".", ".", "/", ".", ".", "/", "x" >>, << >>) }

RequestedLists ==
    { << >>,
      << << "b", "@", "2", ".", "0", ".", "0" >> >>,
      << NA, << ".", ".", "/", "x" >> >>,
      << << ".", ".", "/", "x" >>, NA >> }

ManifestNamed(name, version, dependencies, devDependencies) ==
    [ state |-> "whole",
      doc   |-> ToToml([ NoManifest EXCEPT
                           !.name = name,
                           !.version = version,
                           !.dependencies = dependencies,
                           !.dev_dependencies = devDependencies ]) ]

ManifestOf(dependencies, devDependencies) ==
    ManifestNamed(<< "d", "e", "m", "o" >>, << "0", ".", "1", ".", "0" >>,
                  dependencies, devDependencies)

\* bpkg.toml before the command: none, one without dependencies, one with
\* dev dependencies only, one with both kinds, one whose name is a path
\* ("../x") and whose version has two fields ("1.0"), and one written by hand
\* with a description, files = ["m.bp"] under [package], two dependencies and
\* a script
ManifestFiles ==
    { NoFile,
      ManifestOf(<< >>, << >>),
      ManifestOf(<< >>, << Entry(NB, Star) >>),
      ManifestOf(<< Entry(NA, Caret(V100)) >>, << Entry(NB, Star) >>),
      ManifestNamed(<< ".", ".", "/", "x" >>, << "1", ".", "0" >>, << >>, << >>),
      [ state |-> "whole",
        doc   |-> << Section("package",
                             << Entry("name", << "d", "e", "m", "o" >>),
                                Entry("version", << "0", ".", "1", ".", "0" >>),
                                Entry("description", << "d" >>),
                                Entry("files", << << "m", ".", "b", "p" >> >>) >>),
                     Section("dependencies",
                             << Entry(NA, Caret(V100)), Entry(NC, Star) >>),
                     Section("scripts", << Entry(<< "t" >>, << "r", "u", "n" >>) >>) >> ] }

\* bpkg.lock before the command: none, one a save was interrupted on (opened
\* for writing, nothing written), one of an earlier install
LockFiles ==
    { NoLock,
      [ state |-> "partial", packages |-> << >> ],
      [ state |-> "whole",
        packages |-> << Entry(NA, LockEntry(Published(NA, << "0", ".", "9", ".", "0" >>,
                                                           << >>))) >> ] }

Init ==
    /\ UninstallIdle
    /\ FetchIdle
    /\ NameIdle
    /\ KeyIdle
    /\ CallIdle
    /\ PathIdle
    /\ ResolverIdle
    /\ packages \in RequestedLists
    /\ dev \in BOOLEAN
    /\ pc = "NotStarted"
    /\ manifest_file \in ManifestFiles
    /\ lockfile_file \in LockFiles
    /\ disk0 = << manifest_file, lockfile_file >>
    /\ manifest = NoManifest
    /\ deps = << >>
    /\ lockfile = [ loaded |-> FALSE, packages |-> << >> ]
    /\ batch = << >>
    /\ idx = 0
    /\ pkg_state = << >>
    /\ pkg_result = << >>
    /\ data = << >>
    /\ installed = << >>
    /\ files = << >>
    /\ dirs = {}
    /\ writes = << >>
    /\ lock_saves = 0
    /\ downloads = << >>
    /\ i_error = NoError

Next ==
    \/ ILoadManifest
    \/ IRequested
    \/ IOpenManifest
    \/ IWriteManifest
    \/ IManifestDeps
    \/ INoDeps
    \/ IStartResolve
    \/ ILockfileUnreadable
    \/ RAlreadyResolved
    \/ RCircular
    \/ RFetch(InstallAnswers(CurName, CurSpec))
    \/ RReturn
    \/ IResolveRaised
    \/ IResolved
    \/ IBegin
    \/ IDownload
    \/ IVerifySignature
    \/ IPlace
    \/ ISaveLockfile
    \/ IDumpLockfile
    \/ INothingInstalled
    \/ IFinish
    \/ IInterrupt

Spec == Init /\ [][Next]_vars

(***************************************************************************)
(* PackageManager.uninstall, from a project directory                      *)
(***************************************************************************)
\* line 846: packages_dir / name, as the file system takes it
PackageDir(name) == Resolve(PathJoin(PathParse(PackagesDir).parts, name), << >>)

\* a plausible slip: the name is used as it comes
UninstallNameUnchecked(name) == TRUE

\* line 837: the test of the loop on each name
UninstallNameOk(name) == ValidatePackageName(name)

\* what uninstall leaves alone
uninstallRest ==
    << dev, lockfile_file, deps, lockfile, batch, pkg_state, pkg_result, data,
       installed, files, writes, downloads, lock_saves, pathVars, resolverVars,
       fetchVars, nameVars, callVars, keyVars >>

\* lines 826-834
ULoadManifest ==
    /\ pc = "UninstallStarted"
    /\ IF manifest_file.state = "absent"
       THEN /\ pc' = "Aborted"
            /\ i_error' = Raised("PackageError", "no manifest", << >>)
            /\ UNCHANGED << manifest, idx >>
       ELSE /\ pc' = "Removing"
            /\ manifest' = FromToml(manifest_file.doc)
            /\ idx' = 1
            /\ UNCHANGED i_error
    /\ UNCHANGED << packages, manifest_file, disk0, dirs, uninstallVars, uninstallRest >>

\* lines 836-852, one turn of the loop: the name is validated, taken out of
\* both dependency maps in memory, and its directory, when there is one, is
\* removed with all below it
URemove ==
    /\ pc = "Removing"
    /\ idx <= Len(packages)
    /\ LET name == packages[idx] IN
       IF ~ UninstallNameOk(name)
       THEN /\ pc' = "Aborted"
            /\ i_error' = Raised("ValidationError", "invalid package name", name)
            /\ UNCHANGED << manifest, idx, dirs, validated, removed >>
       ELSE /\ validated' = validated \cup { name }
            /\ manifest' = [ manifest EXCEPT
                               !.dependencies = DictDel(@, name),
                               !.dev_dependencies = DictDel(@, name) ]
            /\ IF PackageDir(name) \in dirs
               THEN /\ dirs' = { d \in dirs : ~ RelativeTo(d, PackageDir(name)) }
                    /\ removed' = Append(removed, PackageDir(name))
               ELSE UNCHANGED << dirs, removed >>
            /\ idx' = idx + 1
            /\ UNCHANGED << pc, i_error >>
    /\ UNCHANGED << packages, manifest_file, disk0, uninstallRest >>

\* line 854, manifest_path.write_text after the loop: the file is opened for
\* writing, which empties it
UOpenManifest ==
    /\ pc = "Removing"
    /\ idx > Len(packages)
    /\ manifest_file' = [ state |-> "partial", doc |-> << >> ]
    /\ pc' = "RewritingManifest"
    /\ UNCHANGED << packages, disk0, manifest, idx, dirs, i_error, uninstallVars,
                    uninstallRest >>

\* line 854: the text is written and the file closed
UWriteManifest ==
    /\ pc = "RewritingManifest"
    /\ manifest_file' = [ state |-> "whole", doc |-> ToToml(manifest) ]
    /\ pc' = "Done"
    /\ UNCHANGED << packages, disk0, manifest, idx, dirs, i_error, uninstallVars,
                    uninstallRest >>

DotDotX == << ".", ".", "/", "x" >>

\* the lists uninstall is called with: valid names, and "../x" first, in
\* the middle and last
UninstallLists ==
    { << NA >>, << NA, NB >>, << NA, DotDotX >>, << DotDotX, NA >>,
      << NB, DotDotX, NA >>, << NA, NB, DotDotX >> }

\* the directories in place before the command: packages/a, packages/b, and
\* x beside packages
InstalledDirs ==
    SUBSET { PackageDir(NA), PackageDir(NB), PackageDir(DotDotX) }

InitUninstall ==
    /\ PathIdle
    /\ ResolverIdle
    /\ UninstallIdle
    /\ FetchIdle
    /\ NameIdle
    /\ KeyIdle
    /\ CallIdle
    /\ packages \in UninstallLists
    /\ dev = FALSE
    /\ pc = "UninstallStarted"
    /\ manifest_file \in ManifestFiles
    /\ lockfile_file \in LockFiles
    /\ disk0 = << manifest_file, lockfile_file >>
    /\ manifest = NoManifest
    /\ deps = << >>
    /\ lockfile = [ loaded |-> FALSE, packages |-> << >> ]
    /\ batch = << >>
    /\ idx = 0
    /\ pkg_state = << >>
    /\ pkg_result = << >>
    /\ data = << >>
    /\ installed = << >>
    /\ files = << >>
    /\ dirs \in InstalledDirs
    /\ writes = << >>
    /\ lock_saves = 0
    /\ downloads = << >>
    /\ i_error = NoError

NextUninstall ==
    \/ ULoadManifest
    \/ URemove
    \/ UOpenManifest
    \/ UWriteManifest

SpecUninstall == InitUninstall /\ [][NextUninstall]_vars

(***************************************************************************)
(* Network.fetch and Network.fetch_package_info.  A URL is kept as the     *)
(* scheme and the host it is written with; a body as its length in bytes   *)
(* and, for the registry, what it holds.                                   *)
(***************************************************************************)
\* response.read(8192)
CHUNK_SIZE == 8192

\* 1 * 1024 * 1024
MAX_MANIFEST_SIZE == 1048576

\* str.lower() of a character
Lower(c) ==
    CASE c = "H" -> "h" [] c = "T" -> "t" [] c = "P" -> "p" [] c = "S" -> "s"
      [] c = "A" -> "a" [] c = "Z" -> "z" [] OTHER -> c

\* urlparse(url).scheme: the scheme, lower-cased
UrlScheme(url) == [ i \in 1..Len(url.scheme) |-> Lower(url.scheme[i]) ]

\* urlparse(url).hostname: the host, lower-cased, an IPv6 literal without
\* its brackets
UrlHostname(url) ==
    LET h == [ i \in 1..Len(url.host) |-> Lower(url.host[i]) ] IN
    IF h # << >> /\ h[1] = "[" /\ h[Len(h)] = "]" THEN SubSeq(h, 2, Len(h) - 1) ELSE h

Https == << "h", "t", "t", "p", "s" >>

\* re.match(r'^\d+\.\d+\.\d+\.\d+$', hostname): four runs of digits with
\* dots between them (the $ also matches before one trailing newline)
LooksLikeIp(hostname) ==
    LET h == IF hostname # << >> /\ hostname[Len(hostname)] = "\n"
             THEN Front(hostname) ELSE hostname
        f == Split(h, ".")
    IN  Len(f) = 4 /\ \A i \in 1..4 : IsInt(f[i])

\* the host test of fetch

Ended(kind, what, requested, len) ==
    [ kind |-> kind, what |-> what, requested |-> requested, len |-> len ]

\* one turn of `while len(data) < max_size` with got bytes in data and left
\* bytes still to come: the loop ends, or a chunk is read and the limit tested
ReadStep(got, left, max_size) ==
    IF ~ (got < max_size) \/ left = 0 THEN Ended("ok", "none", TRUE, got)
    ELSE LET chunk == IF left < CHUNK_SIZE THEN left ELSE CHUNK_SIZE IN
         IF got + chunk > max_size
         THEN Ended("SecurityError", "exceeds size limit", TRUE, 0)
         ELSE Ended("reading", "none", TRUE, got + chunk)

\* response.getheader('Content-Length') is None; a declared length n is << n >>
NoHeader == << >>

\* the bytes response.read can give: http.client ends the body at the
\* declared Content-Length
Readable(response) ==
    IF response.content_length # NoHeader /\ response.content_length[1] < response.body_len
    THEN response.content_length[1]
    ELSE response.body_len

\* Network.fetch(url, max_size) against a server that answers with response:
\* [error, content_length, body_len, content], up to `data = b''`
FetchOpen(url, max_size, response) ==
    IF UrlScheme(url) # Https
    THEN Ended("SecurityError", "not https", FALSE, 0)
    ELSE IF LooksLikeIp(UrlHostname(url))
    THEN Ended("SecurityError", "ip address", FALSE, 0)
    ELSE IF response.error \in { "HTTPError", "URLError" }
    THEN Ended("NetworkError", response.error, TRUE, 0)
    ELSE IF response.error = "SSLError"
    THEN Ended("SecurityError", "SSLError", TRUE, 0)
    ELSE IF response.content_length # NoHeader /\ response.content_length[1] > max_size
    THEN Ended("SecurityError", "content too large", TRUE, 0)
    ELSE Ended("reading", "none", TRUE, 0)

\* DEFAULT_REGISTRY
RegistryUrl ==
    [ scheme |-> Https,
      host   |-> << "r", "e", "g", "i", "s", "t", "r", "y", ".", "b", "e", "t", "t", "e", "r",
                    "p", "y", "t", "h", "o", "n", ".", "o", "r", "g" >> ]

\* json.loads(data) and the PackageInfo built from it: a body cut short is
\* no JSON text; a JSON text that is no object has no ['name']; an object
\* without a required key raises KeyError
ParseInfo(content, whole) ==
    IF ~ whole \/ content = "not json" THEN "JSONDecodeError"
    ELSE IF content = "not an object" THEN "TypeError"
    ELSE IF content = "field missing" THEN "KeyError"
    ELSE "ok"

\* Network.fetch_package_info once fetch has ended as r
AfterFetch(r, response) ==
    IF r.kind # "ok" THEN r
    ELSE LET p == ParseInfo(response.content, r.len = response.body_len) IN
         IF p = "ok" THEN r ELSE Ended(p, response.content, TRUE, r.len)

\* the schemes and hosts a URL is written with: a name, a dotted quad, an
\* IPv6 literal, an IPv4 address written as one number
Schemes ==
    { Https, << "H", "T", "T", "P", "S" >>, << "h", "t", "t", "p" >>,
      << "f", "i", "l", "e" >> }

Hosts ==
    { << "c", "d", "n", ".", "o", "r", "g" >>,
      << "1", "2", "7", ".", "0", ".", "0", ".", "1" >>,
      << "[", ":", ":", "1", "]" >>,
      << "2", "1", "3", "0", "7", "0", "6", "4", "3", "3" >> }

\* what the server does: a failure of the transport, or a body of body_len
\* bytes under a Content-Length that is absent, true or understated
Responses(lens, contents) ==
    [ error : { "HTTPError", "URLError", "SSLError", "timeout in read" },
      content_length : { NoHeader }, body_len : { 0 }, content : { "valid" } ]
    \cup UNION { [ error : { "none" },
                    content_length : { NoHeader, << n >>, << n \div 2 >> },
                    body_len : { n }, content : contents ] : n \in lens }

\* the calls: fetch with limits and bodies around the chunk size, and
\* fetch_package_info with bodies around MAX_MANIFEST_SIZE that are the JSON of
\* a package, no JSON, JSON of another type, or an object without a field
FetchCalls ==
    { [ op |-> "fetch", url |-> u, max_size |-> m, name |-> << >>, version |-> << >>,
        response |-> r ] :
        u \in [ scheme : Schemes, host : Hosts ],
        m \in { 100, CHUNK_SIZE, 10000, 2 * CHUNK_SIZE },
        r \in Responses({ 0, 100, CHUNK_SIZE, CHUNK_SIZE + 1, 2 * CHUNK_SIZE,
                          2 * CHUNK_SIZE + 1, 3 * CHUNK_SIZE }, { "valid" }) }
    \cup
    { [ op |-> "fetch_package_info", url |-> RegistryUrl, max_size |-> MAX_MANIFEST_SIZE,
        name |-> n, version |-> v, response |-> r ] :
        n \in { NA, DotDotX }, v \in { Latest, V100 },
        r \in Responses({ 100, MAX_MANIFEST_SIZE, MAX_MANIFEST_SIZE + 1 },
                        { "valid", "not json", "not an object", "field missing" }) }

InitFetch ==
    /\ PathIdle
    /\ ResolverIdle
    /\ InstallIdle
    /\ UninstallIdle
    /\ f_in \in FetchCalls
    /\ f_out = NotCalled
    /\ NameIdle
    /\ KeyIdle
    /\ CallIdle

\* Network.fetch up to the read loop
CallFetch ==
    /\ f_out = NotCalled
    /\ f_in.op = "fetch"
    /\ f_out' = FetchOpen(f_in.url, f_in.max_size, f_in.response)
    /\ UNCHANGED << f_in, pathVars, resolverVars, installVars, uninstallVars,
                    nameVars, callVars, keyVars >>

\* Network.fetch_package_info up to the read loop of its fetch
CallFetchPackageInfo ==
    /\ f_out = NotCalled
    /\ f_in.op = "fetch_package_info"
    /\ f_out' = IF ~ ValidatePackageName(f_in.name)
                THEN Ended("ValidationError", "invalid package name", FALSE, 0)
                ELSE FetchOpen(RegistryUrl, MAX_MANIFEST_SIZE, f_in.response)
    /\ UNCHANGED << f_in, pathVars, resolverVars, installVars, uninstallVars,
                    nameVars, callVars, keyVars >>

\* one turn of the read loop; response.read raises when the read times out;
\* when fetch returns to fetch_package_info the body is parsed
FRead ==
    /\ f_out.kind = "reading"
    /\ LET r == IF f_in.response.error = "timeout in read"
                THEN Ended("TimeoutError", "timeout in read", TRUE, 0)
                ELSE ReadStep(f_out.len, Readable(f_in.response) - f_out.len,
                              f_in.max_size)
       IN f_out' = IF f_in.op = "fetch_package_info"
                   THEN AfterFetch(r, f_in.response) ELSE r
    /\ UNCHANGED << f_in, pathVars, resolverVars, installVars, uninstallVars,
                    nameVars, callVars, keyVars >>

NextFetch == CallFetch \/ CallFetchPackageInfo \/ FRead

SpecFetch == InitFetch /\ [][NextFetch]_vars

(***************************************************************************)
(* Properties                                                              *)
(***************************************************************************)
Positions == 1..Len(batch)

Settled(i) == pkg_state[i] \in { "Installed", "Failed" }

WritesAt(i) == { k \in 1..Len(writes) : writes[k].at = i }

\* the bytes are the ones the PackageInfo's checksum names, under a supported
\* algorithm, and the signature is one over that checksum by the key stored
\* for the PackageInfo's signer
Verified(info, bytes) ==
    /\ info.checksum_algorithm \in SUPPORTED_HASHES
    /\ info.checksum = << info.checksum_algorithm, bytes >>
    /\ \E k \in 1..Len(TrustedKeys) :
         /\ TrustedKeys[k].key = info.signer_key_id
         /\ TrustedKeys[k].val = << "pub", info.signature.by >>
         /\ info.signature.over = info.checksum

\* C1: package bytes are on disk (the cache file, the project's packages
\* directory) only by a write made for a package whose downloaded bytes
\* matched its checksum under its algorithm and whose signature over the
\* checksum verified under a trusted key; a package that is not installed
\* (its verification failed, or has not ended) has no write.
C1_WrittenOnlyAfterVerification ==
    /\ \A k \in 1..Len(writes) :
         /\ Verified(batch[writes[k].at], writes[k].data)
         /\ pkg_state[writes[k].at] = "Installed"
    /\ \A i \in Positions : pkg_state[i] # "Installed" => WritesAt(i) = {}
    /\ \A f \in DictKeys(files) :
         \E k \in 1..Len(writes) :
           writes[k].path = f /\ writes[k].data = DictGet(files, f)

C1_Witness ==
    \E i, j \in Positions :
      /\ pkg_result[i].what = "invalid signature"
      /\ WritesAt(i) = {}
      /\ pkg_state[j] = "Installed"
      /\ WritesAt(j) # {}

\* download_package was called for the package at i and has ended
DownloadEnded(i) ==
    pkg_result[i].what \in { "fetch", "unsupported hash", "checksum mismatch",
                             "untrusted key", "invalid signature" }
    \/ pkg_result[i].kind = "ok"

UnknownSigner(i) == \A k \in 1..Len(TrustedKeys) : TrustedKeys[k].key # batch[i].signer_key_id

\* C2, as stated: download_package fails with SecurityError whenever the
\* signer is not a key of trusted_keys.
C2_UnknownSignerIsSecurityError ==
    \A i \in Positions :
      DownloadEnded(i) /\ UnknownSigner(i) => pkg_result[i].kind = "SecurityError"

\* C2, amended: with a signer that is not a key of trusted_keys,
\* download_package never returns normally, whatever the signature is: it
\* ends in the error of an earlier step (the fetch, the checksum algorithm,
\* the checksum) or, past those, in SecurityError for the untrusted key, the
\* signature not being looked at; the package is never written and never
\* counted as installed.
C2_UnknownSignerNeverInstalled ==
    \A i \in Positions :
      UnknownSigner(i) =>
        /\ pkg_state[i] \notin { "SignatureVerified", "Installed" }
        /\ WritesAt(i) = {}
        /\ \A k \in 1..Len(installed) : installed[k] # batch[i]
        /\ DownloadEnded(i) =>
             \/ pkg_result[i] = [ kind |-> "SecurityError", what |-> "untrusted key" ]
             \/ pkg_result[i] = [ kind |-> "SecurityError", what |-> "checksum mismatch" ]
             \/ pkg_result[i] = [ kind |-> "SecurityError", what |-> "fetch" ]
             \/ pkg_result[i] = [ kind |-> "NetworkError", what |-> "fetch" ]
             \/ pkg_result[i] = [ kind |-> "ValidationError", what |-> "unsupported hash" ]

\* an unknown signer's package is refused with a forged signature and with a
\* signature that verifies under the signer's own key
C2_Witness ==
    \E i, j \in Positions :
      /\ pkg_result[i].what = "untrusted key"
      /\ batch[i].signature.by = batch[i].signer_key_id
      /\ pkg_result[j].what = "untrusted key"
      /\ batch[j].signature.by # batch[j].signer_key_id

\* the infos of the batch at the positions that are Installed, in order
RECURSIVE InstalledOf(_)
InstalledOf(n) ==
    IF n = 0 THEN << >>
    ELSE IF pkg_state[n] = "Installed" THEN Append(InstalledOf(n - 1), batch[n])
    ELSE InstalledOf(n - 1)

\* C3: a SecurityError or NetworkError for one package of the batch marks
\* that package Failed and the loop goes on to the next position: every
\* position before the loop's is settled, a run that reaches the end of
\* install has attempted every package of the batch, and the installed
\* packages are exactly those whose download and verification succeeded.
C3_FailureDoesNotStopBatch ==
    /\ \A i \in Positions :
         /\ pkg_state[i] = "Failed" =>
              pkg_result[i].kind \in { "SecurityError", "NetworkError" }
         /\ pkg_state[i] = "Installed" <=> pkg_result[i].kind = "ok"
         /\ i < idx => Settled(i)
         /\ i > idx => pkg_state[i] = "Pending"
    /\ pc \in { "SavingLockfile", "LockfileUpdated", "Done" } =>
         \A i \in Positions : Settled(i)
    /\ installed = InstalledOf(Len(batch))

C3_Witness ==
    /\ pc = "Done"
    /\ Len(batch) >= 2
    /\ pkg_state[1] = "Failed"
    /\ \A i \in 2..Len(batch) : pkg_state[i] = "Installed"

Saved == lock_saves = 1 /\ lockfile_file.state = "whole"

InstalledNames == { batch[i].name : i \in { j \in Positions : pkg_state[j] = "Installed" } }

\* the last position of the batch at which a package named n was installed
LastInstalled(n) ==
    CHOOSE i \in Positions :
      /\ pkg_state[i] = "Installed" /\ batch[i].name = n
      /\ \A j \in Positions :
           pkg_state[j] = "Installed" /\ batch[j].name = n => j <= i

\* the registry answered every request with the package asked for
AnswersMatchRequests ==
    /\ Len(resolved) = Len(batch)
    /\ \A i \in Positions : batch[i].name = resolved[i].key

\* C4, as stated (for a batch in which every package carries the name it was
\* requested under): in the written lockfile a package reported Failed is
\* excluded, every installed package has its entry, and the pre-existing
\* entries of names not installed in the run are unchanged.
C4_FailedExcludedFromLockfile ==
    Saved /\ AnswersMatchRequests =>
      /\ \A i \in Positions :
           pkg_state[i] = "Failed" => ~ DictHas(lockfile_file.packages, batch[i].name)
      /\ \A i \in Positions :
           pkg_state[i] = "Installed" =>
             /\ DictHas(lockfile_file.packages, batch[i].name)
             /\ DictGet(lockfile_file.packages, batch[i].name).version = batch[i].version
      /\ \A n \in DictKeys(disk0[2].packages) \ InstalledNames :
           /\ DictHas(lockfile_file.packages, n)
           /\ DictGet(lockfile_file.packages, n) = DictGet(disk0[2].packages, n)

\* C4, amended: the written lockfile is the pre-existing one with the entries
\* of the installed packages put over it.  Every name installed in the run
\* has the entry of the PackageInfo installed last under that name; every
\* other entry of the written lockfile is a pre-existing entry, unchanged,
\* and no pre-existing entry is lost: a package reported Failed gets no entry
\* from the run, and keeps the entry its name had before.
C4_LockfileIsMerge ==
    Saved =>
      /\ \A n \in InstalledNames :
           /\ DictHas(lockfile_file.packages, n)
           /\ LET info == batch[LastInstalled(n)]
                  e    == DictGet(lockfile_file.packages, n)
              IN  /\ e.name = n
                  /\ e.version = info.version
                  /\ e.checksum = info.checksum
                  /\ e.checksum_algorithm = info.checksum_algorithm
                  /\ e.source = info.download_url
                  /\ e.dependencies = info.dependencies
      /\ \A n \in DictKeys(lockfile_file.packages) \ InstalledNames :
           /\ DictHas(disk0[2].packages, n)
           /\ DictGet(lockfile_file.packages, n) = DictGet(disk0[2].packages, n)
      /\ \A n \in DictKeys(disk0[2].packages) \ InstalledNames :
           /\ DictHas(lockfile_file.packages, n)
           /\ DictGet(lockfile_file.packages, n) = DictGet(disk0[2].packages, n)

C4_Witness ==
    /\ Saved
    /\ \E i, j \in Positions :
         /\ pkg_state[i] = "Failed"
         /\ batch[i].name \notin InstalledNames
         /\ DictHas(disk0[2].packages, batch[i].name)
         /\ pkg_state[j] = "Installed"

\* the package resolved under n declares a dependency on m
Declares(n, m) ==
    DictHas(resolved, n) /\ DictHas(DictGet(resolved, n).dependencies, m)

\* m is in the dependency graph of n, by a chain of at most k declarations
RECURSIVE DependsOn(_, _, _)
DependsOn(n, m, k) ==
    /\ k > 0
    /\ \/ Declares(n, m)
       \/ \E x \in DictKeys(resolved) : Declares(n, x) /\ DependsOn(x, m, k - 1)

\* a resolved package whose own dependency graph re-declares it
Redeclared ==
    { n \in DictKeys(resolved) : DependsOn(n, n, Cardinality(DictKeys(resolved))) }

\* C5: when a package's own dependency graph re-declares the package,
\* resolve fails with DependencyError (circular dependency): it never
\* returns normally with such a package resolved.
C5_CycleRaisesCircular == r_pc = "returned" => Redeclared = {}

\* C6: a NetworkError for a dependency is a warning and a skip, never an
\* exception of resolve: resolve does not raise over a package it skipped,
\* also when the package is required again by another parent.
C6_SkippedNeverRaises ==
    r_pc = "raised" => \A k \in 1..Len(warnings) : warnings[k] # r_error.name

C8_LockfileSavedOnceAfterBatch ==
    /\ lock_saves <= 1
    /\ lockfile_file # disk0[2] => lock_saves = 1
    /\ lock_saves = 1 \/ pc \in { "SavingLockfile", "LockfileUpdated" } =>
         /\ pc \in { "SavingLockfile", "LockfileUpdated", "Done", "Interrupted" }
         /\ \A i \in Positions : Settled(i)

C8_Witness ==
    /\ pc = "LockfileUpdated"
    /\ lock_saves = 1
    /\ \E i, j \in Positions : pkg_state[i] = "Failed" /\ pkg_state[j] = "Installed"

\* C9: after an interrupt, neither file is partly written, and the two files
\* are either as they were before the command or as the command leaves them
\* when it completes (the interrupt came after its last write).
C9_InterruptAllOrNothing ==
    pc = "Interrupted" =>
      /\ manifest_file.state # "partial"
      /\ lockfile_file.state # "partial"
      /\ << manifest_file, lockfile_file >> = disk0 \/ i_error.what = "LockfileUpdated"

\* p is base or a path below it
Inside(p, b) == Len(b) <= Len(p) /\ \A i \in 1..Len(b) : p[i] = b[i]

\* p has no "." or ".." component, and no prefix of it is a symbolic link
Canonical(p, lnk) ==
    /\ \A i \in 1..Len(p) : p[i] # DotDot /\ p[i] # Dot /\ p[i] # << >>
    /\ \A i \in 1..Len(p) : SubSeq(p, 1, i) \notin DOMAIN lnk

\* C10: sanitize_path(base, target) raises SecurityError or returns a
\* canonical path that is canonical base or lies below it.
C10_SanitizedInsideBase ==
    /\ sp_out.kind \in { "none", "ok", "SecurityError" }
    /\ sp_out.kind = "ok" =>
         /\ Canonical(sp_out.path, links)
         /\ Inside(sp_out.path, Resolve(PathParse(base).parts, links))

\* a target with "..", through a symbolic link, that stays below base
C10_Witness ==
    /\ sp_out.kind = "ok"
    /\ HasSub(target, DotDot)
    /\ links # << >>
    /\ Len(sp_out.path) > Len(Resolve(PathParse(base).parts, links))
    /\ sp_out.path # PathJoin(PathParse(base).parts, target)

\* C11: for the target "../../etc/passwd", sanitize_path fails with
\* SecurityError whatever the base directory is.
C11_EtcPasswdAlwaysRefused ==
    target = EtcPasswd /\ sp_out.kind # "none" => sp_out.kind = "SecurityError"

\* what sanitize_path(b, ...) gives: a canonical path that is b or below it
Sanitized(p, b) == Canonical(p, << >>) /\ Inside(p, b)

\* C12: every file written for a package (the cache file named from
\* info.name and info.version, the archive copied into the package
\* directory) is written at a path sanitize_path gives for the directory the
\* file belongs to: the cache directory or the project's packages directory.
C12_WritesUseSanitizedPaths ==
    \A k \in 1..Len(writes) :
      \/ Sanitized(writes[k].path, CacheDir)
      \/ Sanitized(writes[k].path, PathParse(PackagesDir).parts)

\* a version spec that has passed validation: "latest", "*", or a version
\* validate_version accepts, possibly after one of the operators
\* _version_satisfies knows
SpecValidated(spec) ==
    \/ spec \in { Latest, Star }
    \/ ValidateVersion(spec)
    \/ \E n \in 1..2 :
         /\ SubSeq(spec, 1, n) \in { << ">", "=" >>, << "<", "=" >>, << ">" >>, << "<" >>,
                                     << "^" >>, << "~" >> }
         /\ ValidateVersion(Drop(spec, n))

\* C13: every request the resolver sends to the registry is for a name that
\* passes validate_package_name and a version spec that has passed
\* validation.
C13_RequestsAreValidated ==
    \A k \in 1..Len(requests) :
      ValidatePackageName(requests[k].name) /\ SpecValidated(requests[k].version)

\* one of the names install was asked for fails validate_package_name
InvalidRequested ==
    \E i \in 1..Len(packages) : ~ ValidatePackageName(Requested(packages[i]).name)

\* C14: when a requested name fails validation, at whatever position of the
\* list, install writes nothing and calls no network: the manifest and the
\* lockfile are as before the command, no directory is made, no file is
\* written, no request or download is issued; and with a manifest in place
\* the command ends in ValidationError.
C14_InvalidRequestAbortsBeforeWrite ==
    InvalidRequested =>
      /\ << manifest_file, lockfile_file >> = disk0
      /\ dirs = {} /\ files = << >> /\ writes = << >>
      /\ requests = << >> /\ downloads = << >>
      /\ pc \in { "NotStarted", "ManifestLoaded", "Aborted", "Interrupted" }
      /\ pc = "Aborted" /\ disk0[1].state # "absent" =>
           /\ i_error.kind = "ValidationError"
           /\ ~ ValidatePackageName(i_error.name)

\* the invalid name is the second of the list, after a valid one
C14_Witness ==
    /\ pc = "Aborted"
    /\ i_error.kind = "ValidationError"
    /\ Len(packages) = 2
    /\ ValidatePackageName(Requested(packages[1]).name)
    /\ disk0[1].state = "whole"

\* C15: when uninstall ends in ValidationError, no package directory has
\* been deleted and the manifest is unchanged, wherever the invalid name
\* stands in the list.
C15_UninstallValidationBeforeMutation ==
    pc = "Aborted" /\ i_error.kind = "ValidationError" =>
      removed = << >> /\ manifest_file = disk0[1]

\* C16: every directory uninstall removes is packages/<name> for a name that
\* passed validate_package_name earlier in the same call.
C16_RemovesOnlyValidatedNames ==
    \A k \in 1..Len(removed) :
      \E n \in validated :
        /\ ValidatePackageName(n)
        /\ removed[k] = Append(PathParse(PackagesDir).parts, n)
        /\ \E i \in 1..Len(packages) : i < idx /\ packages[i] = n

\* two directories removed, then the call stopped at an invalid name
C16_Witness ==
    /\ Len(removed) = 2
    /\ pc = "Aborted"
    /\ i_error.kind = "ValidationError"
    /\ PackageDir(i_error.name) \in dirs

\* a host that is an IP address written out: dotted quad, IPv6 (it has a
\* colon), or an IPv4 address as one number
IpLiteral(hostname) ==
    \/ LET f == Split(hostname, ".") IN Len(f) = 4 /\ \A i \in 1..4 : IsInt(f[i])
    \/ HasChar(hostname, ":")
    \/ IsInt(hostname)

\* C17: fetch opens a connection only for a URL whose scheme is https and
\* whose host is no literal IP address, of any form; any other URL ends in
\* SecurityError with no request made.
C17_NoRequestToIpOrNonHttps ==
    f_in # << >> /\ f_in.op = "fetch" /\ f_out # NotCalled =>
      IF UrlScheme(f_in.url) = Https /\ ~ IpLiteral(UrlHostname(f_in.url))
      THEN TRUE
      ELSE f_out.kind = "SecurityError" /\ ~ f_out.requested

\* C18: when the body of the response is longer than max_size, fetch ends
\* in SecurityError whatever Content-Length says; a call that returns
\* normally returns the whole body, never a prefix of it.
C18_OversizeBodyRefused ==
    f_in # << >> /\ f_in.op = "fetch" =>
      /\ f_out.requested /\ f_out.kind # "reading" /\ f_in.response.error = "none"
           /\ Readable(f_in.response) > f_in.max_size
           => f_out.kind = "SecurityError"
      /\ f_out.kind = "ok" => f_out.len = Readable(f_in.response)

\* C19: fetch_package_info ends normally or in a typed error: NetworkError
\* for a failure of the transport or of HTTP, ValidationError for a
\* malformed response or an invalid name (SecurityError from fetch's own
\* checks counted as typed).
C19_OnlyTypedErrors ==
    f_in # << >> /\ f_in.op = "fetch_package_info" =>
      f_out.kind \in { "none", "reading", "ok", "NetworkError", "ValidationError",
                       "SecurityError" }

(***************************************************************************)
(* Security.validate_package_name, called on its own                       *)
(***************************************************************************)
MaxShortName == 3

\* the characters the names are made of: letters, a digit, the two allowed
\* signs, the separators, the dot and the newline
NameAlphabet == { "a", "Z", "1", "_", "-", "/", "\\", ".", "\n" }

LettersOnly(n) == [ i \in 1..n |-> "a" ]

\* every short name, and names around the length limit with and without a
\* newline at the end
Names ==
    UNION { [ 1..n -> NameAlphabet ] : n \in 0..MaxShortName }
    \cup { LettersOnly(MAX_NAME_LEN), LettersOnly(MAX_NAME_LEN + 1),
           LettersOnly(MAX_NAME_LEN - 1) \o << "\n" >>,
           LettersOnly(MAX_NAME_LEN) \o << "\n" >> }

InitName ==
    /\ PathIdle
    /\ ResolverIdle
    /\ InstallIdle
    /\ UninstallIdle
    /\ FetchIdle
    /\ n_in \in Names
    /\ n_out = "none"
    /\ CallIdle
    /\ KeyIdle

CallValidatePackageName ==
    /\ n_out = "none"
    /\ n_out' = IF ValidatePackageName(n_in) THEN "True" ELSE "False"
    /\ UNCHANGED << n_in, pathVars, resolverVars, installVars, uninstallVars,
                    fetchVars, callVars, keyVars >>

NextName == CallValidatePackageName

SpecName == InitName /\ [][NextName]_vars

\* C20: validate_package_name(name) is true exactly when the name is not
\* empty, has at most 128 characters, starts with a letter and has only
\* letters, digits, "_" and "-" after it; so it is false for a name with "/",
\* "\", ".." or a newline at its end.
WellFormedName(name) ==
    /\ name # << >>
    /\ Len(name) <= MAX_NAME_LEN
    /\ name[1] \in Letters
    /\ \A i \in 2..Len(name) : name[i] \in NameChars

C20_ValidExactlyWhenWellFormed ==
    n_out # "none" => (n_out = "True" <=> WellFormedName(n_in))

(***************************************************************************)
(* DependencyResolver._version_satisfies and _compare_versions, called on  *)
(* their own                                                               *)
(***************************************************************************)
\* dotted-numeric versions of one, two and three fields
Versions ==
    { << "1" >>, << "1", ".", "2" >>, << "1", ".", "5" >>, << "1", ".", "9" >>,
      << "1", ".", "1", "0" >>, << "1", ".", "2", ".", "3" >>, V100, V200 }

\* the specs: the two wildcards, every operator before every version, every
\* version alone, and a word
VersionSpecs ==
    { Latest, Star, << "a", "n", "y" >> } \cup Versions
    \cup { op \o v : op \in { << ">", "=" >>, << "<", "=" >>, << ">" >>, << "<" >>,
                               << "^" >>, << "~" >> },
                     v \in Versions }

InitVersion ==
    /\ PathIdle
    /\ ResolverIdle
    /\ InstallIdle
    /\ UninstallIdle
    /\ FetchIdle
    /\ NameIdle
    /\ KeyIdle
    /\ call \in [ op : { "_version_satisfies" }, version : Versions, spec : VersionSpecs ]
                \cup [ op : { "_compare_versions" }, a : Versions, b : Versions,
                       c : Versions ]
    /\ ret = << >>

CallVersionSatisfies ==
    /\ ret = << >>
    /\ call.op = "_version_satisfies"
    /\ ret' = << VersionSatisfies(call.version, call.spec) >>
    /\ UNCHANGED << call, pathVars, resolverVars, installVars, uninstallVars,
                    fetchVars, nameVars, keyVars >>

\* _compare_versions on each pair of three versions
CallCompareVersions ==
    /\ ret = << >>
    /\ call.op = "_compare_versions"
    /\ ret' = << [ ab |-> CompareVersions(call.a, call.b),
                    ba |-> CompareVersions(call.b, call.a),
                    bc |-> CompareVersions(call.b, call.c),
                    ac |-> CompareVersions(call.a, call.c) ] >>
    /\ UNCHANGED << call, pathVars, resolverVars, installVars, uninstallVars,
                    fetchVars, nameVars, keyVars >>

NextVersion == CallVersionSatisfies \/ CallCompareVersions

SpecVersion == InitVersion /\ [][NextVersion]_vars

\* the order the claim states: the first position, among those both versions
\* have, where the integers differ decides; equal when there is none
StatedOrder(v, w) ==
    LET pv == Split(v, ".")
        pw == Split(w, ".")
        D  == { i \in 1..Len(pv) : i <= Len(pw) /\ IntOf(pv[i]) # IntOf(pw[i]) }
    IN  IF D = {} THEN 0
        ELSE LET k == CHOOSE i \in D : \A j \in D : i <= j IN
             IF IntOf(pv[k]) > IntOf(pw[k]) THEN 1 ELSE -1

Field(v, k) == LET pv == Split(v, ".") IN IF k <= Len(pv) THEN << pv[k] >> ELSE << >>

\* the stated meaning of a spec
StatedSatisfies(version, spec) ==
    IF spec \in { Latest, Star } THEN TRUE
    ELSE IF spec[1] = ">" /\ Len(spec) > 1 /\ spec[2] = "="
    THEN StatedOrder(version, Drop(spec, 2)) >= 0
    ELSE IF spec[1] = "<" /\ Len(spec) > 1 /\ spec[2] = "="
    THEN StatedOrder(version, Drop(spec, 2)) <= 0
    ELSE IF spec[1] = ">" THEN StatedOrder(version, Drop(spec, 1)) > 0
    ELSE IF spec[1] = "<" THEN StatedOrder(version, Drop(spec, 1)) < 0
    ELSE IF spec[1] = "^" THEN Field(version, 1) = Field(Drop(spec, 1), 1)
    ELSE IF spec[1] = "~"
    THEN /\ Field(version, 1) = Field(Drop(spec, 1), 1)
         /\ Field(version, 2) # << >>
         /\ Field(version, 2) = Field(Drop(spec, 1), 2)
    ELSE version = spec

\* C21: _version_satisfies(version, spec) returns what the stated meaning of
\* the spec gives, for every dotted-numeric version and every spec: the
\* wildcards are always satisfied, the four comparisons follow the stated
\* order, "^" asks for the same major field, "~" for the same major and minor
\* fields, any other spec for the same string.
C21_SatisfiesAsStated ==
    call # << >> /\ call.op = "_version_satisfies" /\ ret # << >> =>
      ret[1] = Truth(StatedSatisfies(call.version, call.spec))

\* C22: _compare_versions is antisymmetric and transitive on dotted-numeric
\* versions, whatever their numbers of fields.
C22_CompareIsAnOrder ==
    call # << >> /\ call.op = "_compare_versions" /\ ret # << >> =>
      /\ \A p \in { "ab", "ba", "bc", "ac" } : ret[1][p].err = "none"
      /\ ret[1].ab.val = 0 - ret[1].ba.val
      /\ ret[1].ab.val <= 0 /\ ret[1].bc.val <= 0 => ret[1].ac.val <= 0

(***************************************************************************)
(* Security.compute_checksum and Security.verify_checksum, called on their *)
(* own                                                                     *)
(***************************************************************************)
\* Security.compute_checksum(data, algorithm): [err, val]
ComputeChecksum(bytes, algorithm) ==
    IF algorithm \notin SUPPORTED_HASHES
    THEN [ err |-> "ValidationError", val |-> << >> ]
    ELSE [ err |-> "none", val |-> Digest(bytes, algorithm) ]

\* secrets.compare_digest(a, b) on two str: TypeError unless both are ASCII
CompareDigest(a, b) ==
    IF \E i \in 1..Len(a) : a[i] = "U+00E9" THEN [ err |-> "TypeError", val |-> FALSE ]
    ELSE IF \E i \in 1..Len(b) : b[i] = "U+00E9" THEN [ err |-> "TypeError", val |-> FALSE ]
    ELSE Truth(a = b)

\* Security.verify_checksum(data, expected, algorithm): [err, val]
VerifyChecksum(bytes, expected, algorithm) ==
    LET actual == ComputeChecksum(bytes, algorithm) IN
    IF actual.err # "none" THEN [ err |-> actual.err, val |-> FALSE ]
    ELSE CompareDigest(actual.val, expected)

\* the calls: a few byte strings, every supported algorithm and one that is
\* not; expected is a digest of any of them, the empty string or a string of
\* one character outside ASCII (e with an acute accent)
InitChecksum ==
    /\ PathIdle
    /\ ResolverIdle
    /\ InstallIdle
    /\ UninstallIdle
    /\ FetchIdle
    /\ NameIdle
    /\ KeyIdle
    /\ \E bytes \in { "", "x", "y" }, algorithm \in SUPPORTED_HASHES \cup { "md5" } :
         \E expected \in { Digest(d, a) : d \in { "", "x", "y" }, a \in SUPPORTED_HASHES }
                         \cup { << >>, << "U+00E9" >> } :
           call = [ op |-> "verify_checksum", data |-> bytes, expected |-> expected,
                    algorithm |-> algorithm ]
    /\ ret = << >>

CallVerifyChecksum ==
    /\ ret = << >>
    /\ call.op = "verify_checksum"
    /\ ret' = << VerifyChecksum(call.data, call.expected, call.algorithm) >>
    /\ UNCHANGED << call, pathVars, resolverVars, installVars, uninstallVars,
                    fetchVars, nameVars, keyVars >>

NextChecksum == CallVerifyChecksum

SpecChecksum == InitChecksum /\ [][NextChecksum]_vars

\* C23: for a supported algorithm, verify_checksum(data, expected, algorithm)
\* returns true when expected is compute_checksum(data, algorithm) and false
\* when it is anything else.
C23_VerifyIsEqualityWithComputed ==
    call # << >> /\ call.op = "verify_checksum" /\ ret # << >>
      /\ call.algorithm \in SUPPORTED_HASHES =>
        ret[1] = Truth(call.expected = ComputeChecksum(call.data, call.algorithm).val)

(***************************************************************************)
(* PackageManager.keygen and PackageManager.trust_key.  Bytes are          *)
(* sequences of numbers 0..255; a base64 text is the sequence of its       *)
(* characters' values 0..63, the padding character "=" being Pad.          *)
(***************************************************************************)
Pad == 64

\* base64.b64encode(key): three bytes give four characters; one or two
\* bytes left over give two or three characters and padding
RECURSIVE B64Encode(_)
B64Encode(key) ==
    IF key = << >> THEN << >>
    ELSE IF Len(key) = 1
    THEN << key[1] \div 4, (key[1] % 4) * 16, Pad, Pad >>
    ELSE IF Len(key) = 2
    THEN << key[1] \div 4, (key[1] % 4) * 16 + key[2] \div 16, (key[2] % 16) * 4, Pad >>
    ELSE << key[1] \div 4, (key[1] % 4) * 16 + key[2] \div 16,
            (key[2] % 16) * 4 + key[3] \div 64, key[3] % 64 >>
         \o B64Encode(Drop(key, 3))

\* base64.b64decode(key_b64) of a text whose length is a multiple of four:
\* four characters give three bytes, fewer before padding
RECURSIVE B64Decode(_)
B64Decode(text) ==
    IF Len(text) < 4 THEN << >>
    ELSE IF text[3] = Pad
    THEN << text[1] * 4 + text[2] \div 16 >>
    ELSE IF text[4] = Pad
    THEN << text[1] * 4 + text[2] \div 16, (text[2] % 16) * 16 + text[3] \div 4 >>
    ELSE << text[1] * 4 + text[2] \div 16, (text[2] % 16) * 16 + text[3] \div 4,
            (text[3] % 4) * 64 + text[4] >>
         \o B64Decode(Drop(text, 4))

\* keygen's test of key_id: ^[a-zA-Z0-9_-]+$ (the $ also matches before one
\* trailing newline)
KeyIdOk(key_id) ==
    /\ key_id # << >>
    /\ LET body == IF key_id[Len(key_id)] = "\n" THEN Front(key_id) ELSE key_id IN
       /\ body # << >>
       /\ \A i \in 1..Len(body) : body[i] \in NameChars

NoKeyFile == [ state |-> "absent", mode |-> "none", content |-> << >> ]

\* a file as write_bytes creates it under the process's umask
Created(umask, content) ==
    [ state |-> "present", mode |-> IF umask = "022" THEN "0644" ELSE "0600",
      content |-> content ]

\* Security.generate_keypair
Keypair == [ private |-> << 7, 255 >>, public |-> << 8 >> ]

\* a plausible slip: only the private key file is looked for
PrivateKeyExists(disk) == disk.priv.state = "present"

\* priv_path.exists() or pub_path.exists()
KeyExists(disk) == disk.priv.state = "present" \/ disk.pub.state = "present"

\* _load_trusted_keys: no file, no keys; else every entry decoded
LoadTrustedKeys(file) ==
    IF file.state = "absent" THEN << >>
    ELSE [ i \in 1..Len(file.entries) |->
             Entry(file.entries[i].key, B64Decode(file.entries[i].val)) ]

\* a plausible slip: only the newest key is written
SaveNewestKey(keys) ==
    [ state |-> "present",
      entries |-> IF keys = << >> THEN << >>
                  ELSE << Entry(keys[Len(keys)].key, B64Encode(keys[Len(keys)].val)) >> ]

\* _save_trusted_keys: every key encoded, the file written anew
SaveTrustedKeys(keys) ==
    [ state |-> "present",
      entries |-> [ i \in 1..Len(keys) |-> Entry(keys[i].key, B64Encode(keys[i].val)) ] ]

keyRest == << pathVars, resolverVars, installVars, uninstallVars, fetchVars, nameVars,
              callVars >>

\* keygen up to Security.generate_keypair (lines 920-933); the generation
\* fails when neither PyNaCl nor openssl is there
KStart ==
    /\ k_pc = "KeygenStarted"
    /\ IF ~ KeyIdOk(k_call.key_id)
       THEN /\ k_pc' = "Aborted"
            /\ k_error' = [ kind |-> "ValidationError", what |-> "key id",
                            name |-> k_call.key_id ]
       ELSE IF KeyExists(k_disk)
       THEN /\ k_pc' = "Aborted"
            /\ k_error' = [ kind |-> "PackageError", what |-> "already exists",
                            name |-> k_call.key_id ]
       ELSE \/ k_pc' = "Generated" /\ k_error' = k_error
            \/ /\ k_pc' = "Aborted"
               /\ k_error' = [ kind |-> "CalledProcessError", what |-> "openssl",
                               name |-> k_call.key_id ]
    /\ UNCHANGED << k_call, k_disk, k_disk0, k_mem, keyRest >>

\* priv_path.write_bytes(private_key)
KWritePrivate ==
    /\ k_pc = "Generated"
    /\ k_disk' = [ k_disk EXCEPT !.priv = Created(k_call.umask, Keypair.private) ]
    /\ k_pc' = "PrivateWritten"
    /\ UNCHANGED << k_call, k_disk0, k_mem, k_error, keyRest >>

\* priv_path.chmod(0o600)
KChmod ==
    /\ k_pc = "PrivateWritten"
    /\ k_disk' = [ k_disk EXCEPT !.priv.mode = "0600" ]
    /\ k_pc' = "PrivateRestricted"
    /\ UNCHANGED << k_call, k_disk0, k_mem, k_error, keyRest >>

\* pub_path.write_bytes(public_key)
KWritePublic ==
    /\ k_pc = "PrivateRestricted"
    /\ k_disk' = [ k_disk EXCEPT !.pub = Created(k_call.umask, Keypair.public) ]
    /\ k_pc' = "Done"
    /\ UNCHANGED << k_call, k_disk0, k_mem, k_error, keyRest >>

\* trust_key(key_id, public_key_path)
TTrust ==
    /\ k_pc = "TrustStarted"
    /\ IF k_disk.given.state = "absent"
       THEN /\ k_pc' = "Aborted"
            /\ k_error' = [ kind |-> "PackageError", what |-> "public key not found",
                            name |-> k_call.key_id ]
            /\ UNCHANGED << k_disk, k_mem >>
       ELSE /\ k_mem' = DictSet(k_mem, k_call.key_id, k_disk.given.content)
            /\ k_disk' = [ k_disk EXCEPT !.trusted = SaveTrustedKeys(k_mem') ]
            /\ k_pc' = "Done"
            /\ k_error' = k_error
    /\ UNCHANGED << k_call, k_disk0, keyRest >>

\* the keys a file may hold
KeyBytes == { << >>, << 0 >>, << 255, 1 >>, << 1, 2, 3 >>, << 77, 255, 0, 65 >> }

\* the trusted-keys file before the command: absent, empty, one key, two keys
TrustedFiles ==
    { [ state |-> "absent", entries |-> << >> ], SaveTrustedKeys(<< >>) }
    \cup { SaveTrustedKeys(<< Entry(<< "b" >>, k) >>) : k \in KeyBytes }
    \cup { SaveTrustedKeys(<< Entry(<< "a" >>, << 9 >>), Entry(<< "b" >>, k) >>) :
              k \in KeyBytes }

\* the key files of key_id before keygen, the file at public_key_path before
\* trust_key; the key ids are two names, a path, a name with a newline at
\* its end
KeyFiles(contents) ==
    { NoKeyFile } \cup { [ state |-> "present", mode |-> m, content |-> c ] :
                           m \in { "0644", "0600" }, c \in contents }

InitKeys ==
    /\ PathIdle
    /\ ResolverIdle
    /\ InstallIdle
    /\ UninstallIdle
    /\ FetchIdle
    /\ NameIdle
    /\ CallIdle
    /\ \E key_id \in { << "a" >>, << "b" >>, << "a", "/", "b" >>, << "a", "\n" >> },
          trusted \in TrustedFiles :
         \/ \E umask \in { "022", "077" }, priv \in KeyFiles({ << 9 >> }),
               pub \in KeyFiles({ << 9 >> }) :
              /\ k_call = [ op |-> "keygen", key_id |-> key_id, umask |-> umask ]
              /\ k_pc = "KeygenStarted"
              /\ k_disk = [ priv |-> priv, pub |-> pub, given |-> NoKeyFile,
                            trusted |-> trusted ]
         \/ \E given \in KeyFiles(KeyBytes) :
              /\ k_call = [ op |-> "trust", key_id |-> key_id, umask |-> "022" ]
              /\ k_pc = "TrustStarted"
              /\ k_disk = [ priv |-> NoKeyFile, pub |-> NoKeyFile, given |-> given,
                            trusted |-> trusted ]
    /\ k_disk0 = k_disk
    /\ k_mem = LoadTrustedKeys(k_disk.trusted)
    /\ k_error = NoError

NextKeys == KStart \/ KWritePrivate \/ KChmod \/ KWritePublic \/ TTrust

SpecKeys == InitKeys /\ [][NextKeys]_vars

\* C24: when the private or the public key file of key_id is there before
\* keygen, keygen ends in PackageError (ValidationError, one of its kinds,
\* for a key id it does not accept) and neither key file ever changes.
C24_ExistingKeyNeverOverwritten ==
    k_pc # "idle" /\ k_call.op = "keygen"
      /\ (k_disk0.priv.state = "present" \/ k_disk0.pub.state = "present") =>
      /\ k_disk.priv = k_disk0.priv
      /\ k_disk.pub = k_disk0.pub
      /\ k_pc \in { "KeygenStarted", "Aborted" }
      /\ k_pc = "Aborted" => k_error.kind \in { "PackageError", "ValidationError" }

\* keygen refused a key id it accepts because only the public key file was there
C24_Witness ==
    /\ k_pc = "Aborted"
    /\ k_call.op = "keygen"
    /\ k_error.kind = "PackageError"
    /\ k_disk0.priv.state = "absent"
    /\ k_disk0.pub.state = "present"
    /\ k_disk = k_disk0

\* C25: whenever the private key file keygen wrote is on disk with key
\* material in it, its mode is 0600.
C25_PrivateKeyAlwaysOwnerOnly ==
    k_pc # "idle" /\ k_call.op = "keygen" /\ k_disk0.priv.state = "absent"
      /\ k_disk.priv.state = "present" /\ k_disk.priv.content # << >> =>
        k_disk.priv.mode = "0600"

\* C26: once trust_key has returned, trusted_keys and the trusted-keys file
\* both give key_id the bytes of the file at the path, every key trusted
\* before is still there with its bytes, and loading the file again gives
\* trusted_keys.
C26_TrustPersistsAndKeepsOthers ==
    k_pc = "Done" /\ k_call.op = "trust" =>
      LET before == LoadTrustedKeys(k_disk0.trusted)
          reload == LoadTrustedKeys(k_disk.trusted)
      IN  /\ DictHas(k_mem, k_call.key_id)
          /\ DictGet(k_mem, k_call.key_id) = k_disk0.given.content
          /\ k_disk.trusted.state = "present"
          /\ reload = k_mem
          /\ \A i \in 1..Len(before) :
               before[i].key # k_call.key_id =>
                 /\ DictHas(k_mem, before[i].key)
                 /\ DictGet(k_mem, before[i].key) = before[i].val
                 /\ DictGet(reload, before[i].key) = before[i].val

\* trust_key added a key of four bytes to a file that held two other keys
C26_Witness ==
    /\ k_pc = "Done"
    /\ k_call.op = "trust"
    /\ k_call.key_id = << "a", "\n" >>
    /\ Len(k_disk0.trusted.entries) = 2
    /\ Len(k_disk.trusted.entries) = 3
    /\ Len(k_disk0.given.content) = 4
    /\ DictGet(k_mem, << "b" >>) = << 255, 1 >>

\* the dependencies bpkg.toml declared before the command
Declared == FromToml(disk0[1].doc)

\* C27: install with no requested names on a manifest that declares no
\* dependencies (no dev dependencies either under --dev) returns at "No
\* dependencies to install": no request, no download, the manifest and the
\* lockfile as before, no directory made, no file written.
C27_NothingDeclaredNothingDone ==
    /\ packages = << >>
    /\ disk0[1].state = "whole"
    /\ Declared.dependencies = << >>
    /\ dev => Declared.dev_dependencies = << >>
    =>
      /\ requests = << >> /\ downloads = << >>
      /\ << manifest_file, lockfile_file >> = disk0
      /\ dirs = {} /\ files = << >> /\ writes = << >> /\ lock_saves = 0
      /\ r_pc = "idle"
      /\ pc \in { "NotStarted", "ManifestLoaded", "DepsReady", "Done", "Interrupted" }

\* install without --dev returned on a manifest that declares dev
\* dependencies only, next to a lockfile that cannot be read
C27_Witness ==
    /\ pc = "Done"
    /\ packages = << >>
    /\ ~ dev
    /\ deps = << >>
    /\ disk0[1].state = "whole"
    /\ Declared.dependencies = << >>
    /\ Declared.dev_dependencies # << >>
    /\ lockfile_file.state = "partial"

\* a dict as the mapping it is
Mapping(d) == { << d[i].key, d[i].val >> : i \in 1..Len(d) }

\* C28: the mapping install hands to the resolver is the effective mapping
\* of the manifest in memory: every regular dependency, the names merged from
\* the requested list included, and every dev dependency under --dev.
C28_ResolverGetsEffectiveMapping ==
    pc = "Resolving" =>
      Mapping(deps) =
        Mapping(manifest.dependencies)
          \cup (IF dev THEN Mapping(manifest.dev_dependencies) ELSE {})

\* the name and the version of a manifest pass the two validators
ManifestValid(m) == ValidatePackageName(m.name) /\ ValidateVersion(m.version)

\* C29: a manifest install loads goes on, and is written back, only when its
\* name passes validate_package_name and its version passes validate_version;
\* one that does not ends the command in ValidationError with the manifest
\* file as it was.
C29_ManifestInvariantKept ==
    disk0[1].state = "whole" /\ ~ ManifestValid(Declared) =>
      /\ manifest_file = disk0[1]
      /\ pc \in { "NotStarted", "ManifestLoaded", "Aborted", "Interrupted" }
      /\ pc = "Aborted" => i_error.kind = "ValidationError"

\* C30: what the lockfile holds never decides what install asks the
\* registry: a run with dependencies to install and no request issued was not
\* ended by the lockfile.
C30_LockfileNeverDecides ==
    pc = "Aborted" /\ deps # << >> /\ requests = << >> =>
      i_error.what # "bpkg.lock"

(***************************************************************************)
(* The exit status of the install command                                  *)
(***************************************************************************)
\* main, lines 1070-1073 and 1122-1127: install returned, so main falls off
\* its end and the status is 0; a PackageError or KeyboardInterrupt is caught
\* and answered with sys.exit(1); any other exception leaves main and the
\* interpreter exits with 1
ExitStatus == IF pc = "Done" THEN 0 ELSE 1

\* the packages the install loop reported as failed
FailedPositions ==
    { i \in 1..Len(pkg_result) : pkg_result[i].kind \in { "SecurityError", "NetworkError" } }

\* C31: a command that ended in an error has a non-zero exit status, and an
\* install in which a package failed with SecurityError or NetworkError does
\* not exit with status zero.
C31_FailureGivesNonZeroExit ==
    ~ Running =>
        /\ i_error # NoError => ExitStatus # 0
        /\ FailedPositions # {} => ExitStatus # 0

(***************************************************************************)
(* in_progress and the call stack of _resolve_recursive                    *)
(***************************************************************************)
\* the names whose expansion is on the call stack: every frame but the
\* innermost is at the entry it is expanding
Expanding == { stack[k].deps[stack[k].i].key : k \in 1..(Len(stack) - 1) }

\* C33: while a resolution runs and when it has returned normally,
\* in_progress is exactly the set of names being expanded on the call stack;
\* so a name skipped after a NetworkError is not in it, and it is empty when
\* resolve returns.
C33_InProgressIsCallStack ==
    r_pc \in { "running", "returned" } => in_progress = Expanding

(***************************************************************************)
(* install when resolve raises DependencyError                             *)
(***************************************************************************)
\* C34: when resolution fails with DependencyError, install aborts with that
\* error, with no archive requested, no directory or file created under
\* packages/ or the cache, and bpkg.lock as it was before the command.
C34_DependencyErrorLeavesDiskAlone ==
    (r_pc = "raised" /\ r_error.kind = "DependencyError") =>
        /\ pc \in { "Resolving", "Aborted", "Interrupted" }
        /\ pc = "Aborted" => i_error = r_error
        /\ downloads = << >>
        /\ dirs = {}
        /\ files = << >>
        /\ writes = << >>
        /\ lock_saves = 0
        /\ lockfile_file = disk0[2]

C34_Witness ==
    /\ pc = "Aborted"
    /\ i_error.kind = "DependencyError"
    /\ i_error.what = "version conflict"
    /\ requests # << >>
    /\ lockfile_file.state = "whole"

(***************************************************************************)
(* The manifest across a rewrite by install or uninstall                   *)
(***************************************************************************)
\* the entries of a dependency mapping under the names a command does not
\* target, in their order
Untargeted(d, names) == SelectSeq(d, LAMBDA e : e.key \notin names)

\* the names the command targets: the requested packages of install (before
\* "@"), the names given to uninstall
TargetNames == { Requested(packages[i]).name : i \in 1..Len(packages) }

\* C35: after install or uninstall has rewritten the manifest, the metadata,
\* the files list, the scripts and every dependency entry the command did not
\* target (in order) read back from the file as they read before the command.
C35_RewriteKeepsUntargetedFields ==
    (manifest_file.state = "whole" /\ disk0[1].state = "whole"
         /\ manifest_file # disk0[1]) =>
        LET before == FromToml(disk0[1].doc)
            after  == FromToml(manifest_file.doc)
        IN  /\ after.name = before.name
            /\ after.version = before.version
            /\ after.description = before.description
            /\ after.min_bp_version = before.min_bp_version
            /\ after.files = before.files
            /\ after.scripts = before.scripts
            /\ Untargeted(after.dependencies, TargetNames)
                 = Untargeted(before.dependencies, TargetNames)
            /\ Untargeted(after.dev_dependencies, TargetNames)
                 = Untargeted(before.dev_dependencies, TargetNames)

(***************************************************************************)
(* Termination of resolve.  The steps of one call are the steps of one     *)
(* thread of sequential code: a step that can be taken is taken.           *)
(***************************************************************************)
SpecResolveLive == SpecResolve /\ WF_vars(NextResolve)

\* no name is requested from the registry twice
RequestedOnce ==
    \A i, j \in 1..Len(requests) : requests[i].name = requests[j].name => i = j

\* C36: over a finite set of package names, cyclic dependency declarations
\* included, resolve ends (it returns or raises), and along the way it
\* requests each name from the registry at most once.
C36_TerminatesRequestingOnce == <>(r_pc # "running") /\ []RequestedOnce

\* resolve returned over a cycle a -> b -> a, each requested once
C36_Witness ==
    /\ r_pc = "returned"
    /\ Declares(NA, NB)
    /\ Declares(NB, NA)
    /\ Len(requests) = 2

(***************************************************************************)
(* What the resolver keeps against what was asked for                      *)
(***************************************************************************)
\* the PackageInfo answers the request it was stored or installed for: the
\* same name, and a version that satisfies the requested version_spec
Answers(info, request) ==
    /\ info.name = request.name
    /\ VersionSatisfies(info.version, request.version) = Truth(TRUE)

\* C37: a PackageInfo in resolved under a requested name has that name and a
\* version that satisfies the version_spec of the request, and every
\* installed package answers one of the requests in this way.
C37_StoredInfoMatchesRequest ==
    /\ \A k \in 1..Len(requests) :
         DictHas(resolved, requests[k].name) =>
           Answers(DictGet(resolved, requests[k].name), requests[k])
    /\ \A i \in 1..Len(installed) :
         \E k \in 1..Len(requests) : Answers(installed[i], requests[k])

(***************************************************************************)
(* The packages directory against bpkg.lock when install has ended         *)
(***************************************************************************)
\* C38: when install has ended, by returning or by an exception raised while
\* the batch was being installed, every package whose archive was copied
\* into packages/ has an entry in bpkg.lock on disk.
C38_CopiedPackagesAreLocked ==
    pc \in { "Done", "Aborted" } =>
        \A i \in 1..Len(installed) :
            /\ lockfile_file.state = "whole"
            /\ DictHas(lockfile_file.packages, installed[i].name)

(***************************************************************************)
(* What a failed package leaves on disk                                    *)
(***************************************************************************)
\* no other package of the batch has the name of the package at i
OnlyOfItsName(i) == \A j \in 1..Len(batch) : batch[j].name = batch[i].name => j = i

\* C39: for a package reported as Failed, nothing of it is on disk: neither
\* its directory under packages/, nor its archive there, nor its file in the
\* cache (none of which was there before the command).
C39_FailedLeavesNothing ==
    \A i \in 1..Len(pkg_state) :
        (pkg_state[i] = "Failed" /\ OnlyOfItsName(i)) =>
            LET sp == SanitizePath(PackagesDir, batch[i].name, << >>) IN
            /\ ~ DictHas(files, CacheFile(batch[i]))
            /\ sp.kind = "ok" =>
                 /\ sp.path \notin dirs
                 /\ ~ DictHas(files, PackageFile(sp.path, batch[i]))

(***************************************************************************)
(* Several resolve calls on one DependencyResolver.  ret keeps how each    *)
(* earlier call ended; warnings and requests are those of the current call *)
(***************************************************************************)
MaxCalls == 2

\* how a call ended: returned or raised, with which error, after skipping a
\* package or not
Outcome == [ kind |-> r_pc, error |-> r_error.kind, skipped |-> warnings # << >> ]

\* lines 548-552: resolve is called again on the same resolver, after the
\* call before it returned or raised
RCallAgain ==
    /\ r_pc \in { "returned", "raised" }
    /\ Len(ret) + 1 < MaxCalls
    /\ ret' = Append(ret, Outcome)
    /\ \E d \in TopLevelDeps : StartResolve(d)
    /\ warnings' = << >>
    /\ requests' = << >>
    /\ UNCHANGED << call, pathVars, installVars, uninstallVars, fetchVars, nameVars,
                    keyVars >>

NextResolveAgain ==
    \/ RAlreadyResolved
    \/ RCircular
    \/ RFetch(RegistryAnswers(CurName, CurSpec))
    \/ RReturn
    \/ RCallAgain

SpecResolveAgain == InitResolve /\ [][NextResolveAgain]_vars

\* the names requested from the registry in the current call
RequestedNames == { requests[k].name : k \in 1..Len(requests) }

\* C40: resolved and in_progress belong to one resolve call: while a call
\* runs and when it has returned, every name in resolved and in in_progress
\* was requested from the registry in this call, whatever the earlier calls
\* on the same resolver did; nothing of an earlier call is carried over.
C40_NothingCarriedOver ==
    r_pc \in { "running", "returned" } =>
        /\ DictKeys(resolved) \subseteq RequestedNames
        /\ in_progress \subseteq RequestedNames

\* a second call has returned packages after a first call that skipped a
\* package and ended with DependencyError
C40_Witness ==
    /\ Len(ret) = 1
    /\ ret[1].kind = "raised"
    /\ ret[1].error = "DependencyError"
    /\ ret[1].skipped
    /\ r_pc = "returned"
    /\ resolved # << >>

=============================================================================
